---- MODULE Spec2Model ----
(***************************************************************************)
(* Model of the profile-based name generator of name-generator-rs:         *)
(* LanguageProfileGenerator::generate (src/generators/profile_generator.rs)*)
(* over a LanguageProfile (src/language_profile/profile.rs).               *)
(*                                                                         *)
(* Conventions.                                                            *)
(*  - A Rust String is a sequence of one-character strings; an IPA key     *)
(*    such as "[p]" stays one TLA+ string because the code only compares   *)
(*    keys for equality.  The reserved reduced-vowel keys are written in   *)
(*    ASCII: "[@]" is the schwa key, "[I]" the near-close front vowel,     *)
(*    "[U]" the near-close back vowel and "[i-]" the close central vowel.  *)
(*  - An f32 weight, frequency or strength w is the integer w * One.       *)
(*  - A random generator delivers values v in 0 .. RngRes-1; a float draw  *)
(*    gen::<f32>() is v / RngRes in [0,1), an index draw gen_range(0..n)   *)
(*    is floor(v * n / RngRes).                                            *)
(*  - Option<T> is [some |-> FALSE] or [some |-> TRUE, val |-> x].         *)
(***************************************************************************)
EXTENDS Integers, Sequences, FiniteSets, TLC

\* ------------------------------------------------------------------ bounds

\* Number of distinct values a random generator can deliver in one draw.
RngRes == 3

\* The integer that stands for the f32 value 1.0.
One == 10

\* Number of values the rng passed to a pattern can deliver.
MaxPatternDraws == 3

\* Number of generate calls the caller makes on one profile.
MaxCalls == 2

RngValues == 0 .. (RngRes - 1)
Calls == 1 .. MaxCalls
Half == One \div 2

\* ------------------------------------------------------------------ options

None == [some |-> FALSE]
Some(x) == [some |-> TRUE, val |-> x]

Range(s) == {s[i] : i \in 1 .. Len(s)}

RECURSIVE SumFrequency(_)
SumFrequency(items) ==
    IF items = <<>> THEN 0
    ELSE items[1].frequency + SumFrequency(Tail(items))

\* ------------------------------------------------------------------ data

Phoneme(ipa, phoneme_type, grapheme, frequency) ==
    [ipa |-> ipa, phoneme_type |-> phoneme_type,
     grapheme |-> grapheme, frequency |-> frequency]

SyllablePattern(pattern, frequency) ==
    [pattern |-> pattern, frequency |-> frequency]

PhonemeCluster(phonemes, frequency) ==
    [phonemes |-> phonemes, frequency |-> frequency]

\* A rule without a script (script: None). The fields condition and
\* requirement are never read by the generator.
HarmonyRule(name, strength) ==
    [name |-> name, strength |-> strength, script |-> None]

\* A rule that carries a Lua script (script: Some(..)).
ScriptedRule(name, strength, script) ==
    [name |-> name, strength |-> strength, script |-> Some(script)]

Syllable(onset, nucleus, coda, stressed) ==
    [onset |-> onset, nucleus |-> nucleus, coda |-> coda, stressed |-> stressed]

LanguageProfile(phonemes, phoneme_groups, patterns, onsets, nuclei, codas, min_syllables, max_syllables, harmony_rules) ==
    [name |-> "Test Language",
     phonetic_inventory |->
        [phonemes |-> phonemes, phoneme_groups |-> phoneme_groups],
     syllable_structure |->
        [patterns |-> patterns, onsets |-> onsets,
         nuclei |-> nuclei, codas |-> codas],
     word_composition |->
        [min_syllables |-> min_syllables, max_syllables |-> max_syllables],
     style_rules |-> [harmony_rules |-> harmony_rules]]

\* ------------------------------------------------------------------ inventory

\* Mutant: the key is compared with the written form.
get_phoneme_by_grapheme(inventory, ipa) ==
    LET hits == {i \in 1 .. Len(inventory.phonemes) :
                    inventory.phonemes[i].grapheme = <<ipa>>}
    IN  IF hits = {} THEN None
        ELSE Some(inventory.phonemes[CHOOSE i \in hits : \A j \in hits : i <= j])

get_phoneme(inventory, ipa) ==
    LET hits == {i \in 1 .. Len(inventory.phonemes) :
                    inventory.phonemes[i].ipa = ipa}
    IN  IF hits = {} THEN None
        ELSE Some(inventory.phonemes[CHOOSE i \in hits : \A j \in hits : i <= j])

get_group(inventory, group_name) ==
    IF group_name \in DOMAIN inventory.phoneme_groups
    THEN Some(inventory.phoneme_groups[group_name])
    ELSE None

is_vowel(phoneme) == phoneme.phoneme_type = "Vowel"

\* The least index i of seq with seq[i] among the accepted elements, or 0: a
\* `for x in seq` loop that returns at the first hit.
FirstIndex(seq, accepted) ==
    LET hits == {i \in 1 .. Len(seq) : seq[i] \in accepted}
    IN  IF hits = {} THEN 0 ELSE CHOOSE i \in hits : \A j \in hits : i <= j

\* ------------------------------------------------------------------ sampling

\* rng.gen_range(0..n) on the delivered value v: an index 1 .. n (1-based).
gen_index(n, v) == ((v * n) \div RngRes) + 1

\* Mutant: the range is taken one too wide.
gen_range_one_too_wide(lo, hi, v) == lo + ((v * (hi - lo + 2)) \div RngRes)

\* rng.gen_range(lo..=hi) on the delivered value v; the range is non-empty.
gen_range_inclusive(lo, hi, v) == lo + ((v * (hi - lo + 1)) \div RngRes)

\* Mutant: the comparison is <= instead of <.
gate_inclusive(v, strength) == v * One <= strength * RngRes

\* rng.gen::<f32>() < strength, the draw being v / RngRes.
gate(v, strength) == v * One < strength * RngRes

\* The outcomes of that comparison over every value a generator can deliver.
gate_outcomes(strength) == {gate(v, strength) : v \in RngValues}

\* Mutant: the walk stops only where random_value has become negative.
get_random_pattern_strict(structure, v) ==
    LET patterns == structure.patterns
        total_weight == SumFrequency(patterns)
        crossed(i) == v * total_weight < RngRes * SumFrequency(SubSeq(patterns, 1, i))
        hits == {i \in 1 .. Len(patterns) : crossed(i)}
    IN  IF patterns = <<>> THEN [result |-> None, used |-> 0]
        ELSE IF total_weight <= 0 THEN [result |-> Some(patterns[1]), used |-> 0]
        ELSE IF hits # {}
             THEN [result |-> Some(patterns[CHOOSE i \in hits : \A j \in hits : i <= j]),
                   used |-> 1]
             ELSE [result |-> Some(patterns[Len(patterns)]), used |-> 1]

\* SyllableStructure::get_random_pattern: result is the Option returned,
\* used the number of values taken from rng.
get_random_pattern(structure, v) ==
    LET patterns == structure.patterns
        total_weight == SumFrequency(patterns)
        \* random_value = v / RngRes * total_weight; after subtracting the
        \* first i frequencies it is <= 0 iff v * total <= RngRes * their sum
        crossed(i) == v * total_weight <= RngRes * SumFrequency(SubSeq(patterns, 1, i))
        hits == {i \in 1 .. Len(patterns) : crossed(i)}
    IN  IF patterns = <<>> THEN [result |-> None, used |-> 0]
        ELSE IF total_weight <= 0 THEN [result |-> Some(patterns[1]), used |-> 0]
        ELSE IF hits # {}
             THEN [result |-> Some(patterns[CHOOSE i \in hits : \A j \in hits : i <= j]),
                   used |-> 1]
             ELSE [result |-> Some(patterns[Len(patterns)]), used |-> 1]

\* WeightedIndex::new(&weights): Err when a weight is negative (the sum is
\* known to be positive where it is called).
weighted_index_new_fails(clusters) ==
    \E i \in 1 .. Len(clusters) : clusters[i].frequency < 0

\* The largest finite f32, in the unit of the weights: a sum beyond it is
\* the f32 infinity.
F32Max == 100 * One

\* WeightedIndex::new(&weights), every weight being >= 0: it builds
\* Uniform::new(0.0, total), whose assertion that the span is finite fails
\* when the weights sum to infinity.
weighted_index_new_panics(clusters) == SumFrequency(clusters) > F32Max

\* Mutant: the last index is returned whatever the value.
weighted_index_sample_last(clusters, v) == Len(clusters)

\* WeightedIndex::sample: the chosen weight is v / RngRes * total; the index
\* is the first whose cumulative weight exceeds it.
weighted_index_sample(clusters, v) ==
    LET total == SumFrequency(clusters)
        above(i) == RngRes * SumFrequency(SubSeq(clusters, 1, i)) > v * total
        hits == {i \in 1 .. Len(clusters) : above(i)}
    IN  CHOOSE i \in hits : \A j \in hits : i <= j

\* weighted_choice: result is the Option returned, used the number of values
\* taken from rng, panicked whether the call panicked instead of returning.
weighted_choice(clusters, v) ==
    LET total_weight == SumFrequency(clusters)
        returned(index) == [result |-> Some(clusters[index]), used |-> 1, panicked |-> FALSE]
    IN  IF clusters = <<>> THEN [result |-> None, used |-> 0, panicked |-> FALSE]
        ELSE IF total_weight <= 0 THEN returned(gen_index(Len(clusters), v))
        ELSE IF weighted_index_new_fails(clusters)
             THEN returned(gen_index(Len(clusters), v))
        ELSE IF weighted_index_new_panics(clusters)
             THEN [result |-> None, used |-> 0, panicked |-> TRUE]
        ELSE returned(weighted_index_sample(clusters, v))

choose_onset(profile, v) == weighted_choice(profile.syllable_structure.onsets, v)

choose_nucleus(profile, v) == weighted_choice(profile.syllable_structure.nuclei, v)

\* Mutant: the coda is drawn from the onset list.
choose_coda_from_onsets(profile, v) == weighted_choice(profile.syllable_structure.onsets, v)

choose_coda(profile, v) == weighted_choice(profile.syllable_structure.codas, v)

\* ------------------------------------------------------------------ syllable builder

\* Mutant: the cluster is appended to what the slot holds.
extend_into(slot, phonemes) == slot \o phonemes

\* `syllable.onset = onset.phonemes.clone()` (and the same for nucleus and
\* coda): the new value of a slot that held slot.
clone_into(slot, phonemes) == phonemes

\* The loop of generate_syllable over pattern.pattern.chars(), from character
\* i on: vs holds the values rng delivers, k of them already taken; missed
\* records that a draw returned None so that the slot was left as it was,
\* panicked that a draw panicked, which ends the loop.
RECURSIVE fill_components(_, _, _, _, _, _, _)
fill_components(profile, chars, i, syllable, vs, k, missed) ==
    LET stopped == [syllable |-> syllable, used |-> k, missed |-> missed, panicked |-> TRUE]
    IN
    IF i > Len(chars)
    THEN [syllable |-> syllable, used |-> k, missed |-> missed, panicked |-> FALSE]
    ELSE IF chars[i] = "C"
    THEN IF syllable.nucleus = <<>>
         THEN LET r == choose_onset(profile, vs[k + 1])
              IN  IF r.panicked THEN stopped
                  ELSE IF r.result.some
                  THEN fill_components(profile, chars, i + 1,
                           [syllable EXCEPT !.onset = clone_into(@, r.result.val.phonemes)],
                           vs, k + r.used, missed)
                  ELSE fill_components(profile, chars, i + 1, syllable, vs, k, TRUE)
         ELSE LET r == choose_coda(profile, vs[k + 1])
              IN  IF r.panicked THEN stopped
                  ELSE IF r.result.some
                  THEN fill_components(profile, chars, i + 1,
                           [syllable EXCEPT !.coda = clone_into(@, r.result.val.phonemes)],
                           vs, k + r.used, missed)
                  ELSE fill_components(profile, chars, i + 1, syllable, vs, k, TRUE)
    ELSE IF chars[i] = "V"
    THEN LET r == choose_nucleus(profile, vs[k + 1])
         IN  IF r.panicked THEN stopped
             ELSE IF r.result.some
             THEN fill_components(profile, chars, i + 1,
                      [syllable EXCEPT !.nucleus = clone_into(@, r.result.val.phonemes)],
                      vs, k + r.used, missed)
             ELSE fill_components(profile, chars, i + 1, syllable, vs, k, TRUE)
    ELSE fill_components(profile, chars, i + 1, syllable, vs, k, missed)

\* generate_syllable after the pattern is drawn.
generate_syllable(profile, pattern, vs) ==
    fill_components(profile, pattern.pattern, 1,
                    Syllable(<<>>, <<>>, <<>>, FALSE), vs, 0, FALSE)

\* ------------------------------------------------------------------ stress

\* Mutant: the loop over the later syllables is missing.
assign_stress_first_only(syllables) ==
    [i \in 1 .. Len(syllables) |->
        IF i = 1 THEN [syllables[i] EXCEPT !.stressed = TRUE] ELSE syllables[i]]

assign_stress_patterns(syllables) ==
    [i \in 1 .. Len(syllables) |->
        IF i - 1 = 0 \/ (i - 1 >= 2 /\ (i - 1) % 2 = 0)
        THEN [syllables[i] EXCEPT !.stressed = TRUE]
        ELSE syllables[i]]

\* ------------------------------------------------------------------ rule helpers

\* The key "[ə]" the rules write as the reduction target.
Schwa == "[@]"

\* The keys is_reduced_vowel matches: "[ə]" | "[ɪ]" | "[ʊ]" | "[ɨ]".
ReducedVowels == {"[@]", "[I]", "[U]", "[i-]"}

\* Mutant: a key that is in no group gets the first group of the map.
determine_vowel_group_or_first(profile, order, vowel_ipa) ==
    LET groups == profile.phonetic_inventory.phoneme_groups
        has(group_name) == vowel_ipa \in Range(groups[group_name])
        at == FirstIndex(order, {group_name \in Range(order) : has(group_name)})
    IN  IF at # 0 THEN Some(order[at])
        ELSE IF order # <<>> THEN Some(order[1]) ELSE None

\* determine_vowel_group: the first group, in the iteration order of the
\* phoneme_groups HashMap (order), that contains the key.
determine_vowel_group(profile, order, vowel_ipa) ==
    LET groups == profile.phonetic_inventory.phoneme_groups
        has(group_name) == vowel_ipa \in Range(groups[group_name])
        at == FirstIndex(order, {group_name \in Range(order) : has(group_name)})
    IN  IF at = 0 THEN None ELSE Some(order[at])

\* Mutant: the first member of the group is taken without looking it up.
find_first_member(profile, current_nucleus, target_group) ==
    IF ~target_group.some THEN None
    ELSE LET group == get_group(profile.phonetic_inventory, target_group.val)
         IN  IF group.some /\ group.val # <<>> THEN Some(group.val[1]) ELSE None

find_harmonizing_vowel(profile, current_nucleus, target_group) ==
    IF ~target_group.some THEN None
    ELSE LET inventory == profile.phonetic_inventory
             group == get_group(inventory, target_group.val)
             vowel(ipa) == /\ get_phoneme(inventory, ipa).some
                           /\ is_vowel(get_phoneme(inventory, ipa).val)
         IN  IF ~group.some THEN None
             ELSE LET at == FirstIndex(group.val, {ipa \in Range(group.val) : vowel(ipa)})
                  IN  IF at = 0 THEN None ELSE Some(group.val[at])

is_reduced_vowel(vowel_ipa) == vowel_ipa \in ReducedVowels

is_full_vowel(profile, vowel_ipa) ==
    LET phoneme == get_phoneme(profile.phonetic_inventory, vowel_ipa)
    IN  IF phoneme.some
        THEN is_vowel(phoneme.val) /\ ~is_reduced_vowel(vowel_ipa)
        ELSE FALSE

find_full_vowel_in_group(profile, group_name) ==
    LET group == get_group(profile.phonetic_inventory, group_name)
        full(ipa) == is_full_vowel(profile, ipa)
        at == IF group.some
              THEN FirstIndex(group.val, {ipa \in Range(group.val) : full(ipa)})
              ELSE 0
    IN  IF at = 0 THEN None ELSE Some(group.val[at])

\* Mutant: no fallback to the schwa.
find_reduced_vowel_no_fallback(profile, group_name) ==
    LET group == get_group(profile.phonetic_inventory, group_name)
        at == IF group.some
              THEN FirstIndex(group.val, Range(group.val) \cap ReducedVowels)
              ELSE 0
    IN  IF at # 0 THEN Some(group.val[at]) ELSE None

find_reduced_vowel_in_group(profile, group_name) ==
    LET group == get_group(profile.phonetic_inventory, group_name)
        at == IF group.some
              THEN FirstIndex(group.val, Range(group.val) \cap ReducedVowels)
              ELSE 0
    IN  IF at # 0 THEN Some(group.val[at])
        ELSE IF get_phoneme(profile.phonetic_inventory, Schwa).some
             THEN Some(Schwa)
             ELSE None

prefer_full_vowels(profile, order, syllable) ==
    IF syllable.nucleus = <<>> THEN syllable
    ELSE LET current_vowel == syllable.nucleus[1]
             vowel_group == determine_vowel_group(profile, order, current_vowel)
             full_vowel == find_full_vowel_in_group(profile, vowel_group.val)
         IN  IF is_reduced_vowel(current_vowel) /\ vowel_group.some /\ full_vowel.some
             THEN [syllable EXCEPT !.nucleus = <<full_vowel.val>>]
             ELSE syllable

prefer_reduced_vowels(profile, order, syllable) ==
    IF syllable.nucleus = <<>> THEN syllable
    ELSE LET current_vowel == syllable.nucleus[1]
             vowel_group == determine_vowel_group(profile, order, current_vowel)
             reduced_vowel == find_reduced_vowel_in_group(profile, vowel_group.val)
         IN  IF is_full_vowel(profile, current_vowel) /\ vowel_group.some
                /\ reduced_vowel.some
             THEN [syllable EXCEPT !.nucleus = <<reduced_vowel.val>>]
             ELSE syllable

\* Mutant: the last len elements are kept.
truncate_front(vec, len) ==
    IF Len(vec) > len THEN SubSeq(vec, Len(vec) - len + 1, Len(vec)) ELSE vec

\* Vec::truncate(len)
truncate(vec, len) == IF Len(vec) > len THEN SubSeq(vec, 1, len) ELSE vec

\* ------------------------------------------------------------------ rules
\* open[i] is the outcome of `rng.gen::<f32>() < rule.strength` for syllable i
\* (1-based), drawn from the rule's own generator rand::thread_rng().

\* Mutant: the loop does not skip syllable 0.
apply_vowel_harmony_from_first(profile, order, syllables, rule) ==
    IF syllables = <<>> THEN syllables
    ELSE IF syllables[1].nucleus = <<>> THEN syllables
    ELSE LET vowel_group ==
                 determine_vowel_group(profile, order, syllables[1].nucleus[1])
             replacement == find_harmonizing_vowel(profile, <<>>, vowel_group)
         IN  [i \in 1 .. Len(syllables) |->
                 IF replacement.some
                 THEN [syllables[i] EXCEPT !.nucleus = <<replacement.val>>]
                 ELSE syllables[i]]

apply_vowel_harmony(profile, order, syllables, rule) ==
    IF syllables = <<>> THEN syllables
    ELSE IF syllables[1].nucleus = <<>> THEN syllables
    ELSE LET vowel_group ==
                 determine_vowel_group(profile, order, syllables[1].nucleus[1])
             harmonized(syllable) ==
                 LET replacement ==
                         find_harmonizing_vowel(profile, syllable.nucleus, vowel_group)
                 IN  IF replacement.some
                     THEN [syllable EXCEPT !.nucleus = <<replacement.val>>]
                     ELSE syllable
         IN  [i \in 1 .. Len(syllables) |->
                 IF i = 1 THEN syllables[i] ELSE harmonized(syllables[i])]

\* Mutant: the stressed flag is not tested.
apply_vowel_reduction_everywhere(profile, syllables, rule, open) ==
    [i \in 1 .. Len(syllables) |->
        IF open[i] /\ get_phoneme(profile.phonetic_inventory, Schwa).some
        THEN [syllables[i] EXCEPT !.nucleus = <<Schwa>>]
        ELSE syllables[i]]

apply_vowel_reduction(profile, syllables, rule, open) ==
    [i \in 1 .. Len(syllables) |->
        IF /\ ~syllables[i].stressed
           /\ open[i]
           /\ get_phoneme(profile.phonetic_inventory, Schwa).some
        THEN [syllables[i] EXCEPT !.nucleus = <<Schwa>>]
        ELSE syllables[i]]

apply_consonant_cluster_simplification(syllables, rule, open) ==
    [i \in 1 .. Len(syllables) |->
        IF open[i]
        THEN [syllables[i] EXCEPT !.onset = IF Len(@) > 2 THEN truncate(@, 2) ELSE @,
                                  !.coda = IF Len(@) > 2 THEN truncate(@, 2) ELSE @]
        ELSE syllables[i]]

\* Mutant: a syllable the rule works on comes out unstressed.
apply_quality_clearing_stress(profile, order, syllables, rule, open) ==
    [i \in 1 .. Len(syllables) |->
        IF open[i]
        THEN IF syllables[i].stressed
             THEN [prefer_full_vowels(profile, order, syllables[i]) EXCEPT !.stressed = FALSE]
             ELSE prefer_reduced_vowels(profile, order, syllables[i])
        ELSE syllables[i]]

apply_stress_dependent_vowel_quality(profile, order, syllables, rule, open) ==
    [i \in 1 .. Len(syllables) |->
        IF open[i]
        THEN IF syllables[i].stressed
             THEN prefer_full_vowels(profile, order, syllables[i])
             ELSE prefer_reduced_vowels(profile, order, syllables[i])
        ELSE syllables[i]]

\* Scripts a rule may carry: one that is not Lua, one that defines no
\* function apply_rule, and one that defines it.
InvalidLuaScript == "invalid lua syntax here"

NoApplyRuleScript == "function test_complex_rule(syllables, context) return 0 end"

ReductionScript == "function apply_rule(syllables, context) ... set_nucleus({context:get_schwa()}) ... end"

\* LuaRuleEngine::load_script followed by LuaRuleEngine::apply_rule: Err
\* when the script does not load, or when the global apply_rule is not a
\* function.
interpreter_reports_error(script) == script \in {InvalidLuaScript, NoApplyRuleScript}

\* Mutant: a rule with a script is handed to the interpreter, whose error
\* is returned.
rule_result_delegating(rule) ==
    IF rule.script.some /\ interpreter_reports_error(rule.script.val)
    THEN "Err" ELSE "Ok"

\* What an arm of the match of apply_harmony_rules reports to generate:
\* every arm returns (), and no arm reads rule.script.
rule_result(rule) == "Ok"

\* Mutant: the script of an unknown rule is run as the interpreter would
\* run a reduction script: later nuclei become the schwa.
run_unknown_rule(syllables, rule) ==
    [i \in 1 .. Len(syllables) |->
        IF i > 1 /\ rule.script.some
        THEN [syllables[i] EXCEPT !.nucleus = <<Schwa>>]
        ELSE syllables[i]]

\* The arm `_ => { /* Unknown rule type, skip */ }`.
skip_unknown_rule(syllables, rule) == syllables

\* Mutant: vowel_reduction draws before it tests the stressed flag, and
\* draws again for the syllables it reduces.
gates_drawn_twice(syllables, rule) ==
    IF rule.name = "vowel_reduction"
    THEN Len(syllables) + Cardinality({i \in 1 .. Len(syllables) : ~syllables[i].stressed})
    ELSE IF rule.name \in {"consonant_cluster_simplification",
                           "stress_dependent_vowel_quality"}
    THEN Len(syllables)
    ELSE 0

\* The number of rng.gen::<f32>() calls the rule makes on its own
\* rand::thread_rng(): vowel_reduction one per unstressed syllable,
\* consonant_cluster_simplification and stress_dependent_vowel_quality one
\* per syllable, vowel_harmony and unknown rules none.
gates_drawn(syllables, rule) ==
    IF rule.name = "vowel_reduction"
    THEN Cardinality({i \in 1 .. Len(syllables) : ~syllables[i].stressed})
    ELSE IF rule.name \in {"consonant_cluster_simplification",
                           "stress_dependent_vowel_quality"}
    THEN Len(syllables)
    ELSE 0

\* One iteration of the loop of apply_harmony_rules: the match on rule.name.
apply_harmony_rule(profile, order, syllables, rule, open) ==
    IF rule.name = "vowel_harmony"
    THEN apply_vowel_harmony(profile, order, syllables, rule)
    ELSE IF rule.name = "vowel_reduction"
    THEN apply_vowel_reduction(profile, syllables, rule, open)
    ELSE IF rule.name = "consonant_cluster_simplification"
    THEN apply_consonant_cluster_simplification(syllables, rule, open)
    ELSE IF rule.name = "stress_dependent_vowel_quality"
    THEN apply_stress_dependent_vowel_quality(profile, order, syllables, rule, open)
    ELSE skip_unknown_rule(syllables, rule)

\* ------------------------------------------------------------------ renderer

RECURSIVE push_graphemes_stop_at_unknown(_, _, _)
\* Mutant: a key without a phoneme entry ends the slot.
push_graphemes_stop_at_unknown(profile, result, slot) ==
    IF slot = <<>> THEN result
    ELSE LET phoneme == get_phoneme(profile.phonetic_inventory, slot[1])
         IN  IF phoneme.some
             THEN push_graphemes_stop_at_unknown(profile,
                      result \o phoneme.val.grapheme, Tail(slot))
             ELSE result

RECURSIVE push_graphemes(_, _, _)
\* `for phoneme_ipa in slot { if let Some(p) = get_phoneme(..) { push_str } }`
push_graphemes(profile, result, slot) ==
    IF slot = <<>> THEN result
    ELSE LET phoneme == get_phoneme(profile.phonetic_inventory, slot[1])
         IN  push_graphemes(profile,
                 IF phoneme.some THEN result \o phoneme.val.grapheme ELSE result,
                 Tail(slot))

RECURSIVE convert_from(_, _, _)
convert_from(profile, result, syllables) ==
    IF syllables = <<>> THEN result
    ELSE convert_from(profile,
             push_graphemes(profile,
                 push_graphemes(profile,
                     push_graphemes(profile, result, syllables[1].onset),
                     syllables[1].nucleus),
                 syllables[1].coda),
             Tail(syllables))

convert_to_graphemes(profile, syllables) == convert_from(profile, <<>>, syllables)

\* ------------------------------------------------------------------ profiles

Consonant(ipa, grapheme) == Phoneme(ipa, "Consonant", grapheme, One)

Vowel(ipa, grapheme) == Phoneme(ipa, "Vowel", grapheme, One)

\* The empty phoneme_groups map.
NoGroups == [group_name \in {} |-> <<>>]

\* LanguageProfile::create_simple_test_profile
SimpleTestProfile ==
    LanguageProfile(
        <<Phoneme("[p]", "Consonant", <<"p">>, 8), Phoneme("[t]", "Consonant", <<"t">>, 9),
          Phoneme("[k]", "Consonant", <<"k">>, 7), Phoneme("[a]", "Vowel", <<"a">>, 9),
          Phoneme("[i]", "Vowel", <<"i">>, 8), Phoneme("[o]", "Vowel", <<"o">>, 7)>>,
        NoGroups,
        <<SyllablePattern(<<"C", "V">>, 6), SyllablePattern(<<"C", "V", "C">>, 4)>>,
        <<PhonemeCluster(<<"[p]">>, 8), PhonemeCluster(<<"[t]">>, 9),
          PhonemeCluster(<<"[k]">>, 7)>>,
        <<PhonemeCluster(<<"[a]">>, 9), PhonemeCluster(<<"[i]">>, 8),
          PhonemeCluster(<<"[o]">>, 7)>>,
        <<PhonemeCluster(<<>>, 6), PhonemeCluster(<<"[t]">>, 4)>>,
        1, 3, <<>>)

\* One-syllable profiles that break an input invariant of the engine, or
\* whose weights are all zero.
DegenerateProfiles ==
    LET base == [SimpleTestProfile EXCEPT !.word_composition.max_syllables = 1]
        zero(items) == [i \in 1 .. Len(items) |-> [items[i] EXCEPT !.frequency = 0]]
    IN  { [base EXCEPT !.syllable_structure.patterns = <<>>],
          [base EXCEPT !.syllable_structure.onsets = <<>>],
          [base EXCEPT !.syllable_structure.nuclei = <<>>],
          [base EXCEPT !.syllable_structure.codas = <<>>],
          [base EXCEPT !.syllable_structure.patterns = zero(@)],
          [base EXCEPT !.syllable_structure.onsets = zero(@),
                       !.syllable_structure.nuclei = zero(@),
                       !.syllable_structure.codas = zero(@)],
          [base EXCEPT !.word_composition.min_syllables = 2] }

\* Longest word of the profiles that only fix the word length.
MaxWordLength == 5

\* Words of exactly n syllables "V", n = 0 .. MaxWordLength, no rules.
FixedLengthProfiles ==
    { LanguageProfile(
          <<Vowel("[a]", <<"a">>)>>, NoGroups,
          <<SyllablePattern(<<"V">>, One)>>,
          <<>>, <<PhonemeCluster(<<"[a]">>, One)>>, <<>>,
          n, n, <<>>) : n \in 0 .. MaxWordLength }

\* Inventory of the rule profiles: "[y]" is never declared; the schwa is
\* declared or not.
RuleInventory(with_schwa) ==
    <<Consonant("[p]", <<"p">>), Consonant("[t]", <<"t">>),
      Consonant("[k]", <<"c", "k">>), Consonant("[s]", <<"s">>),
      Vowel("[a]", <<"a">>), Vowel("[e]", <<"e">>), Vowel("[i]", <<"i">>),
      Vowel("[I]", <<"y">>)>>
    \o (IF with_schwa THEN <<Vowel(Schwa, <<"e">>)>> ELSE <<>>)

FrontGroups == "front_vowels" :> <<"[y]", "[t]", "[e]", "[i]", "[I]">>

OverlapGroups == FrontGroups @@ ("mid_vowels" :> <<"[a]", "[e]">>)

RuleGroups == {NoGroups, FrontGroups, OverlapGroups}

GatedRules == {"vowel_reduction", "consonant_cluster_simplification", "stress_dependent_vowel_quality"}

BuiltinRules == GatedRules \cup {"vowel_harmony"}

\* Rule lists of the rule profiles: every built-in alone with strength 0.0,
\* 0.5 and 1.0, an unknown name, and lists in which the order matters.
RuleLists ==
    { <<HarmonyRule(n, s)>> : n \in BuiltinRules, s \in {0, Half, One} }
    \cup { <<HarmonyRule("custom_rule", One)>>,
           <<HarmonyRule("vowel_reduction", One), HarmonyRule("vowel_harmony", One)>>,
           <<HarmonyRule("vowel_harmony", One), HarmonyRule("vowel_reduction", One)>>,
           <<HarmonyRule("stress_dependent_vowel_quality", One),
             HarmonyRule("custom_rule", Half),
             HarmonyRule("consonant_cluster_simplification", One)>> }

\* Words of 2 or 3 syllables "CV" with a three-symbol onset cluster.
RuleProfiles ==
    { LanguageProfile(
          RuleInventory(with_schwa), groups,
          <<SyllablePattern(<<"C", "V">>, One)>>,
          <<PhonemeCluster(<<"[s]", "[p]", "[t]">>, One)>>,
          <<PhonemeCluster(<<"[a]">>, One), PhonemeCluster(<<"[e]">>, One),
            PhonemeCluster(<<"[I]">>, One)>>,
          <<>>,
          2, 3, rules) :
        with_schwa \in BOOLEAN, groups \in RuleGroups, rules \in RuleLists }

\* One or two syllables "CVC" whose onsets and codas have 0 .. 3 symbols,
\* under consonant_cluster_simplification.
ClusterProfiles ==
    { LanguageProfile(
          RuleInventory(FALSE), NoGroups,
          <<SyllablePattern(<<"C", "V", "C">>, 0)>>,
          <<PhonemeCluster(<<"[s]", "[p]", "[t]">>, One), PhonemeCluster(<<"[p]">>, One),
            PhonemeCluster(<<>>, One)>>,
          <<PhonemeCluster(<<"[a]">>, One)>>,
          <<PhonemeCluster(<<"[k]", "[s]", "[t]">>, One),
            PhonemeCluster(<<"[t]", "[s]">>, One), PhonemeCluster(<<"[t]">>, One)>>,
          1, 2, <<HarmonyRule("consonant_cluster_simplification", s)>>) :
        s \in {0, Half, One} }

\* A group that lists the reduced vowel "[ʊ]", which has no phoneme entry.
UndeclaredReducedGroups == "front_vowels" :> <<"[e]", "[U]", "[i]">>

\* Two syllables "V" over declared nuclei, with that group.
UndeclaredReducedProfiles ==
    { LanguageProfile(
          RuleInventory(with_schwa), UndeclaredReducedGroups,
          <<SyllablePattern(<<"V">>, One)>>,
          <<>>, <<PhonemeCluster(<<"[e]">>, One), PhonemeCluster(<<"[a]">>, One)>>, <<>>,
          2, 2, rules) :
        with_schwa \in BOOLEAN,
        rules \in { <<HarmonyRule("stress_dependent_vowel_quality", One)>>,
                    <<HarmonyRule("stress_dependent_vowel_quality", Half),
                      HarmonyRule("vowel_harmony", One)>> } }

\* Consonants p, t, k and vowels a, e, i, the template "CV", one
\* single-key cluster per consonant and per vowel, all of weight 1.0, one
\* syllable, no rules.
ScenarioAProfile ==
    LanguageProfile(
        <<Consonant("[p]", <<"p">>), Consonant("[t]", <<"t">>), Consonant("[k]", <<"k">>),
          Vowel("[a]", <<"a">>), Vowel("[e]", <<"e">>), Vowel("[i]", <<"i">>)>>,
        NoGroups,
        <<SyllablePattern(<<"C", "V">>, One)>>,
        <<PhonemeCluster(<<"[p]">>, One), PhonemeCluster(<<"[t]">>, One),
          PhonemeCluster(<<"[k]">>, One)>>,
        <<PhonemeCluster(<<"[a]">>, One), PhonemeCluster(<<"[e]">>, One),
          PhonemeCluster(<<"[i]">>, One)>>,
        <<>>,
        1, 1, <<>>)

\* Rule lists with a rule that is no built-in and carries a script, alone
\* with every strength and script, and followed by a built-in rule.
ScriptedRuleLists ==
    { <<ScriptedRule("bad_lua_rule", s, script)>> :
        s \in {0, Half, One},
        script \in {InvalidLuaScript, NoApplyRuleScript, ReductionScript} }
    \cup { <<ScriptedRule("bad_lua_rule", Half, InvalidLuaScript),
             HarmonyRule("vowel_reduction", One)>> }

\* Two syllables "V" under those rule lists; the schwa is declared.
ScriptedProfiles ==
    { LanguageProfile(
          RuleInventory(TRUE), FrontGroups,
          <<SyllablePattern(<<"V">>, One)>>,
          <<>>, <<PhonemeCluster(<<"[a]">>, One), PhonemeCluster(<<"[e]">>, One)>>, <<>>,
          2, 2, rules) : rules \in ScriptedRuleLists }

\* The simple test profile with the rule lists the tests push onto it: a
\* built-in and a scripted rule, and a built-in rule and a rule whose script
\* is not Lua.
SimpleRuleProfiles ==
    { [SimpleTestProfile EXCEPT !.style_rules.harmony_rules = rules] :
        rules \in { <<HarmonyRule("vowel_harmony", 8),
                      ScriptedRule("lua_vowel_reduction", 7, ReductionScript)>>,
                    <<HarmonyRule("consonant_cluster_simplification", One),
                      ScriptedRule("bad_lua_rule", Half, InvalidLuaScript)>> } }

Profiles ==
    {SimpleTestProfile} \cup DegenerateProfiles \cup FixedLengthProfiles
    \cup RuleProfiles \cup ClusterProfiles \cup UndeclaredReducedProfiles
    \cup {ScenarioAProfile} \cup ScriptedProfiles \cup SimpleRuleProfiles

\* Profiles of the calls that share one seed: two syllables "V".
SeededProfiles ==
    { LanguageProfile(
          RuleInventory(TRUE), OverlapGroups,
          <<SyllablePattern(<<"V">>, 0)>>,
          <<>>, <<PhonemeCluster(<<"[a]">>, One), PhonemeCluster(<<"[e]">>, One)>>, <<>>,
          2, 2, rules) :
        rules \in { <<>>, <<HarmonyRule("vowel_harmony", Half)>>,
                    <<HarmonyRule("vowel_reduction", Half)>>,
                    <<HarmonyRule("vowel_reduction", One)>>,
                    <<HarmonyRule("consonant_cluster_simplification", Half)>>,
                    <<HarmonyRule("stress_dependent_vowel_quality", Half)>> } }
    \cup { [SimpleTestProfile EXCEPT !.word_composition.min_syllables = 2,
                                     !.word_composition.max_syllables = 1] }

\* A group without a symbol declared as a Vowel: "[y]" is not declared,
\* "[t]" is a Consonant.
StopGroups == "stops" :> <<"[y]", "[t]">>

\* Words of 0 or 2 syllables under vowel_harmony alone: the templates "V"
\* and "C" (a syllable without nucleus), nuclei among which a consonant
\* and a cluster without symbols, and groups with and without a Vowel.
HarmonyProfiles ==
    { LanguageProfile(
          RuleInventory(FALSE), groups,
          <<SyllablePattern(<<"V">>, One), SyllablePattern(<<"C">>, One)>>,
          <<PhonemeCluster(<<"[p]">>, One)>>,
          nuclei,
          <<>>,
          n, n, <<HarmonyRule("vowel_harmony", s)>>) :
        groups \in {NoGroups, StopGroups, FrontGroups, StopGroups @@ FrontGroups},
        nuclei \in { <<PhonemeCluster(<<"[t]">>, One), PhonemeCluster(<<"[a]">>, One),
                       PhonemeCluster(<<"[e]">>, One)>>,
                     <<PhonemeCluster(<<>>, One), PhonemeCluster(<<"[i]">>, One)>> },
        n \in {0, 2},
        s \in {0, One} }

\* A group of reduced symbols and a Consonant, without a full vowel.
ReducedGroups == "reduced_vowels" :> <<"[I]", "[t]", "[U]">>

\* A group whose only member is a full vowel.
LowGroups == "low_vowels" :> <<"[a]">>

\* Words of 2 syllables (stressed, unstressed) under
\* stress_dependent_vowel_quality alone: the templates "V" and "C" (a
\* syllable without nucleus), full and reduced nuclei and a Consonant as
\* nucleus, groups with and without full and reduced members, the schwa
\* declared or not.
QualityProfiles ==
    { LanguageProfile(
          RuleInventory(with_schwa), groups,
          <<SyllablePattern(<<"V">>, One), SyllablePattern(<<"C">>, One)>>,
          <<PhonemeCluster(<<"[p]">>, One)>>,
          nuclei,
          <<>>,
          2, 2, <<HarmonyRule("stress_dependent_vowel_quality", s)>>) :
        with_schwa \in BOOLEAN,
        nuclei \in { <<PhonemeCluster(<<"[a]">>, One), PhonemeCluster(<<"[e]", "[a]">>, One),
                       PhonemeCluster(<<"[I]">>, One)>>,
                     <<PhonemeCluster(<<"[t]">>, One), PhonemeCluster(<<"[I]">>, One),
                       PhonemeCluster(<<"[i]">>, One)>> },
        groups \in {NoGroups, ReducedGroups, LowGroups, FrontGroups, OverlapGroups,
                    UndeclaredReducedGroups, ReducedGroups @@ FrontGroups},
        s \in {Half, One} }

\* Template lists for the samplers and the syllable builder: repeated
\* markers, a character that is no marker, a template without "V", and
\* weights that are zero at the front, at the back or everywhere, or rise.
TemplateLists ==
    { <<SyllablePattern(<<"C", "V">>, One)>>,
      <<SyllablePattern(<<"C", "V", "C">>, 0), SyllablePattern(<<"C", "C", "V">>, One)>>,
      <<SyllablePattern(<<"C", "V", "V">>, One), SyllablePattern(<<"C", "x", "V">>, 0)>>,
      <<SyllablePattern(<<"C", "x", "V">>, 2), SyllablePattern(<<"C", "C", "V", "C">>, 3),
        SyllablePattern(<<"V", "C">>, One)>>,
      <<SyllablePattern(<<"C">>, Half), SyllablePattern(<<"V", "C", "C">>, Half)>>,
      <<SyllablePattern(<<"C", "V", "C">>, 0), SyllablePattern(<<"V", "V">>, 0)>>,
      <<SyllablePattern(<<"C", "C", "V">>, Half), SyllablePattern(<<"C", "V", "V">>, One),
        SyllablePattern(<<"C", "V">>, 0)>> }

\* Onset lists: none, equal weights, a zero weight at the front, and a
\* negative weight (validate does not look at cluster frequencies).
OnsetLists ==
    { <<>>,
      <<PhonemeCluster(<<"[p]">>, One), PhonemeCluster(<<"[s]", "[t]">>, One),
        PhonemeCluster(<<>>, One)>>,
      <<PhonemeCluster(<<"[p]">>, 0), PhonemeCluster(<<"[s]", "[t]">>, One)>>,
      <<PhonemeCluster(<<"[p]">>, 0 - Half), PhonemeCluster(<<"[t]">>, 0),
        PhonemeCluster(<<"[k]">>, One)>> }

\* Nucleus lists: none, unequal weights, all weights zero, and a cluster
\* without a symbol.
NucleusLists ==
    { <<>>,
      <<PhonemeCluster(<<"[a]">>, One), PhonemeCluster(<<"[e]", "[i]">>, Half)>>,
      <<PhonemeCluster(<<"[a]">>, 0), PhonemeCluster(<<"[e]">>, 0)>>,
      <<PhonemeCluster(<<>>, Half), PhonemeCluster(<<"[i]">>, Half)>> }

\* Coda lists: none, equal weights, a zero weight at the back.
CodaLists ==
    { <<>>,
      <<PhonemeCluster(<<"[t]">>, One), PhonemeCluster(<<"[k]", "[s]">>, One),
        PhonemeCluster(<<"[s]">>, One)>>,
      <<PhonemeCluster(<<"[k]">>, One), PhonemeCluster(<<"[t]">>, 0)>> }

\* The profiles whose samplers and syllable builder are called on their own.
BuilderProfiles ==
    { LanguageProfile(RuleInventory(FALSE), NoGroups, patterns, onsets, nuclei, codas,
                      1, 1, <<>>) :
        patterns \in TemplateLists, onsets \in OnsetLists, nuclei \in NucleusLists,
        codas \in CodaLists }

\* The orders in which a HashMap with these keys may iterate.
IterationOrders(keys) ==
    {order \in [1 .. Cardinality(keys) -> keys] :
        \A i, j \in 1 .. Cardinality(keys) : order[i] = order[j] => i = j}

\* ------------------------------------------------------------------ pattern engine
\* GeneratorNode of src/src/pattern.rs and PhoneticRules of
\* src/src/phonetic_rules.rs. A String is a sequence of characters.

Literal(s) == [kind |-> "Literal", s |-> s]

Sequence(nodes) == [kind |-> "Sequence", nodes |-> nodes]

Random(nodes) == [kind |-> "Random", nodes |-> nodes]

Reverser(node) == [kind |-> "Reverser", node |-> node]

Capitalizer(node) == [kind |-> "Capitalizer", node |-> node]

Collapser(node) == [kind |-> "Collapser", node |-> node]

\* The letters of the model and their upper-case forms.
UpperCase == [ch \in {"a", "e", "k", "l", "y"} |->
                 CASE ch = "a" -> "A" [] ch = "e" -> "E" [] ch = "k" -> "K"
                   [] ch = "l" -> "L" [] ch = "y" -> "Y"]

to_uppercase(ch) == IF ch \in DOMAIN UpperCase THEN UpperCase[ch] ELSE ch

to_lowercase(ch) ==
    IF \E low \in DOMAIN UpperCase : UpperCase[low] = ch
    THEN CHOOSE low \in DOMAIN UpperCase : UpperCase[low] = ch
    ELSE ch

\* str::contains
contains(text, part) ==
    \E i \in 1 .. Len(text) - Len(part) + 1 : SubSeq(text, i, i + Len(part) - 1) = part

Reverse(text) == [i \in 1 .. Len(text) |-> text[Len(text) + 1 - i]]

\* fn is_vowel(ch: char) of phonetic_rules.rs
is_vowel_char(ch) == to_lowercase(ch) \in {"a", "e", "i", "o", "u", "y"}

\* PhoneticRules::get_compatibility_score, 1.0 being One.
get_compatibility_score(rules, last_char, next_char) ==
    LET last_is_vowel == is_vowel_char(last_char)
        next_is_vowel == is_vowel_char(next_char)
    IN  IF /\ last_is_vowel /\ ~next_is_vowel
           /\ last_char \in DOMAIN rules.vowel_consonant_compatibility
           /\ next_char \in rules.vowel_consonant_compatibility[last_char]
        THEN rules.compatible_weight_multiplier
        ELSE IF /\ ~last_is_vowel /\ next_is_vowel
                /\ last_char \in DOMAIN rules.consonant_vowel_compatibility
                /\ next_char \in rules.consonant_vowel_compatibility[last_char]
        THEN rules.compatible_weight_multiplier
        ELSE One

\* PhoneticRules::check_consecutive_limits: 0 or One.
check_consecutive_limits(rules, context, next_option) ==
    IF context = <<>> \/ next_option = <<>> THEN One
    ELSE LET last_is_vowel == is_vowel_char(context[Len(context)])
             next_is_vowel == is_vowel_char(next_option[1])
             \* length of the run of that kind at the end of context
             run == {n \in 1 .. Len(context) :
                       \A i \in Len(context) - n + 1 .. Len(context) :
                          is_vowel_char(context[i]) = last_is_vowel}
             consecutive_count == CHOOSE n \in run : \A m \in run : m <= n
             max_allowed == IF last_is_vowel THEN rules.max_consecutive_vowels
                            ELSE rules.max_consecutive_consonants
         IN  IF last_is_vowel = next_is_vowel /\ consecutive_count >= max_allowed
             THEN 0 ELSE One

RECURSIVE times_preferred(_, _, _)
\* weight *= preferred_weight_multiplier, n times.
times_preferred(rules, weight, n) ==
    IF n = 0 THEN weight
    ELSE times_preferred(rules, (weight * rules.preferred_weight_multiplier) \div One, n - 1)

\* PhoneticRules::calculate_weight, 1.0 being One.
calculate_weight(rules, context, next_option) ==
    IF context = <<>> THEN One
    ELSE LET test_sequence == context \o next_option
             preferred == {i \in 1 .. Len(rules.preferred_sequences) :
                             contains(test_sequence, rules.preferred_sequences[i])}
             weight == times_preferred(rules, One, Cardinality(preferred))
             scored == IF next_option = <<>> THEN weight
                       ELSE (weight * get_compatibility_score(rules,
                                context[Len(context)], next_option[1])) \div One
         IN  IF \E i \in 1 .. Len(rules.forbidden_sequences) :
                    contains(test_sequence, rules.forbidden_sequences[i])
             THEN 0
             ELSE (scored * check_consecutive_limits(rules, context, next_option)) \div One

\* Capitalizer: first.to_uppercase() followed by rest.to_lowercase().
capitalize(text) ==
    IF text = <<>> THEN text
    ELSE [i \in 1 .. Len(text) |->
             IF i = 1 THEN to_uppercase(text[i]) ELSE to_lowercase(text[i])]

RECURSIVE collapse(_, _, _, _, _)
\* The loop of the Collapser arm from character i on.
collapse(text, i, out, count, last_char) ==
    IF i > Len(text) THEN out
    ELSE LET current_char == text[i]
             now == IF current_char = last_char THEN count + 1 ELSE 0
             max_count == IF current_char \in {"a", "h", "i", "j", "q", "u", "v",
                                              "w", "x", "y"} THEN 1 ELSE 2
         IN  collapse(text, i + 1,
                      IF now < max_count THEN Append(out, current_char) ELSE out,
                      now, current_char)

RECURSIVE preview_content(_)
\* GeneratorNode::preview_content
preview_content(node) ==
    CASE node.kind = "Literal" -> node.s
      [] node.kind = "Sequence" ->
            IF node.nodes = <<>> THEN <<>> ELSE preview_content(node.nodes[1])
      [] node.kind = "Random" ->
            IF node.nodes = <<>> THEN <<>> ELSE preview_content(node.nodes[1])
      [] node.kind = "Capitalizer" -> capitalize(preview_content(node.node))
      [] node.kind = "Reverser" -> Reverse(preview_content(node.node))
      [] node.kind = "Collapser" -> preview_content(node.node)

RECURSIVE sum_weights(_)
sum_weights(weights) ==
    IF weights = <<>> THEN 0 ELSE weights[1] + sum_weights(Tail(weights))

\* WeightedIndex::sample over a vector of weights whose sum is positive.
weights_sample(weights, v) ==
    LET cumulative(i) == sum_weights(SubSeq(weights, 1, i))
        hits == {i \in 1 .. Len(weights) : RngRes * cumulative(i) > v * cumulative(Len(weights))}
    IN  CHOOSE i \in hits : \A j \in hits : i <= j

\* GeneratorNode::weighted_choice: the index of the chosen node; one value
\* is taken from rng on every path.
node_weighted_choice(nodes, context, rules, v) ==
    LET options == [i \in 1 .. Len(nodes) |-> preview_content(nodes[i])]
        weights == [i \in 1 .. Len(nodes) |-> calculate_weight(rules, context, options[i])]
        has_valid_weight == \E i \in 1 .. Len(nodes) : weights[i] > 0
    IN  IF ~has_valid_weight THEN gen_index(Len(nodes), v)
        ELSE weights_sample(weights, v)

RECURSIVE generate_with_context(_, _, _, _)
RECURSIVE generate_sequence(_, _, _, _, _)
\* GeneratorNode::generate_with_context: result is the String returned,
\* context the caller's context afterwards, rest the values rng still holds.
\* rules is the Option passed.
generate_with_context(node, vs, context, rules) ==
    CASE node.kind = "Literal" -> [result |-> node.s, context |-> context, rest |-> vs]
      [] node.kind = "Sequence" -> generate_sequence(node.nodes, vs, context, rules, <<>>)
      [] node.kind = "Random" ->
            IF node.nodes = <<>> THEN [result |-> <<>>, context |-> context, rest |-> vs]
            ELSE LET index == IF rules.some
                              THEN node_weighted_choice(node.nodes, context, rules.val, Head(vs))
                              ELSE gen_index(Len(node.nodes), Head(vs))
                 IN  generate_with_context(node.nodes[index], Tail(vs), context, rules)
      [] node.kind = "Capitalizer" ->
            LET inner == generate_with_context(node.node, vs, context, rules)
            IN  [inner EXCEPT !.result = capitalize(@)]
      [] node.kind = "Reverser" ->
            LET inner == generate_with_context(node.node, vs, context, rules)
            IN  [inner EXCEPT !.result = Reverse(@)]
      [] node.kind = "Collapser" ->
            LET inner == generate_with_context(node.node, vs, context, rules)
            IN  [inner EXCEPT !.result = collapse(@, 1, <<>>, 0, "NUL")]

\* The loop of the Sequence arm over the nodes left, result being the
\* String built so far.
generate_sequence(nodes, vs, context, rules, result) ==
    IF nodes = <<>> THEN [result |-> result, context |-> context, rest |-> vs]
    ELSE LET part == generate_with_context(nodes[1], vs, context, rules)
         IN  generate_sequence(Tail(nodes), part.rest, part.context \o part.result,
                               rules, result \o part.result)

\* profiles::DARK_RULES, 2.0 and 1.5 in units of One.
DARK_RULES ==
    [name |-> "dark",
     forbidden_sequences |-> << <<"e", "e">>, <<"i", "i">>, <<"a", "y">>,
                                <<"e", "y">>, <<"l", "y">>, <<"e", "l">> >>,
     preferred_sequences |-> << <<"r", "k">>, <<"t", "h">>, <<"s", "h">>, <<"c", "k">>,
                                <<"n", "g">>, <<"g", "h">>, <<"o", "r">>, <<"a", "r">> >>,
     vowel_consonant_compatibility |->
         ("a" :> {"r", "k", "g"}) @@ ("o" :> {"r", "k", "g"}) @@ ("u" :> {"r", "k", "g", "n"}),
     consonant_vowel_compatibility |->
         ("r" :> {"a", "o", "u"}) @@ ("k" :> {"a", "o"}) @@ ("g" :> {"a", "o", "u"}),
     max_consecutive_vowels |-> 1,
     max_consecutive_consonants |-> 2,
     preferred_weight_multiplier |-> 2 * One,
     compatible_weight_multiplier |-> (3 * One) \div 2]

\* A rule set a caller builds: one forbidden and one preferred sequence.
DoubledStopRules ==
    [name |-> "no doubled stop",
     forbidden_sequences |-> << <<"k", "k">> >>,
     preferred_sequences |-> << <<"k", "a">> >>,
     vowel_consonant_compatibility |-> ("a" :> {"k"}),
     consonant_vowel_compatibility |-> ("k" :> {"e"}),
     max_consecutive_vowels |-> 2,
     max_consecutive_consonants |-> 2,
     preferred_weight_multiplier |-> 2 * One,
     compatible_weight_multiplier |-> (3 * One) \div 2]

\* What Category::phonetic_rules can return.
RuleSets == {None, Some(DARK_RULES), Some(DoubledStopRules)}

\* The nodes GroupBuilder puts into a sequence: a character outside the
\* symbol map, a symbol with its expansions, a literal group "(ee|y)", a
\* symbol group "<c>".
PatternItems ==
    { Literal(<<"k">>),
      Literal(<<"e">>),
      Random(<<Literal(<<"k">>), Literal(<<"a">>)>>),
      Random(<<Literal(<<"e">>), Literal(<<"l">>)>>),
      Random(<<Literal(<<"k", "k">>), Literal(<<"a">>)>>),
      Random(<<Sequence(<<Literal(<<"e">>), Literal(<<"e">>)>>), Sequence(<<Literal(<<"y">>)>>)>>),
      Sequence(<<Random(<<Literal(<<"k">>), Literal(<<"a">>)>>)>>) }

\* The root nodes Pattern::parse produces from patterns of two and three
\* items, with the wrappers "!" and "~" and with collapse_triples.
Patterns ==
    LET pairs == {Sequence(<<first, second>>) : first \in PatternItems, second \in PatternItems}
    IN  pairs
        \cup {Sequence(<<first, second, third>>) :
                 first \in PatternItems, second \in PatternItems, third \in PatternItems}
        \cup {Sequence(<<Capitalizer(first), second>>) :
                 first \in PatternItems, second \in PatternItems}
        \cup {Sequence(<<first, Reverser(second)>>) :
                 first \in PatternItems, second \in PatternItems}
        \cup {Collapser(root) : root \in pairs}

\* ------------------------------------------------------------------ validate

\* A cluster of the list holds a key that is not in available_phonemes.
unknown_phoneme_in(p, clusters) ==
    \E i \in 1 .. Len(clusters) :
        \E ipa \in Range(clusters[i].phonemes) :
            ~get_phoneme(p.phonetic_inventory, ipa).some

\* A frequency outside 0.0 ..= 1.0.
out_of_range(frequency) == frequency < 0 \/ frequency > One

\* The checks of LanguageProfile::validate in the order of the code, each
\* with the error it returns.
validation_checks(p) ==
    LET inv == p.phonetic_inventory
        str == p.syllable_structure
        wc == p.word_composition
    IN  << [failed |-> p.name = "",
            err |-> "Language profile must have a name"],
           [failed |-> inv.phonemes = <<>>,
            err |-> "Language profile must have at least one phoneme"],
           [failed |-> unknown_phoneme_in(p, str.onsets),
            err |-> "Unknown phoneme in onset"],
           [failed |-> unknown_phoneme_in(p, str.nuclei),
            err |-> "Unknown phoneme in nucleus"],
           [failed |-> unknown_phoneme_in(p, str.codas),
            err |-> "Unknown phoneme in coda"],
           [failed |-> \E g \in DOMAIN inv.phoneme_groups :
                          \E ipa \in Range(inv.phoneme_groups[g]) :
                              ~get_phoneme(inv, ipa).some,
            err |-> "Unknown phoneme in group"],
           [failed |-> wc.min_syllables = 0,
            err |-> "Minimum syllables must be at least 1"],
           [failed |-> wc.max_syllables < wc.min_syllables,
            err |-> "Maximum syllables must be greater than or equal to minimum syllables"],
           [failed |-> str.patterns = <<>>,
            err |-> "Language profile must have at least one syllable pattern"],
           [failed |-> str.nuclei = <<>>,
            err |-> "Language profile must have at least one nucleus (vowel sound)"],
           [failed |-> \E i \in 1 .. Len(inv.phonemes) : out_of_range(inv.phonemes[i].frequency),
            err |-> "Phoneme frequency must be between 0.0 and 1.0"],
           [failed |-> \E i \in 1 .. Len(str.patterns) : out_of_range(str.patterns[i].frequency),
            err |-> "Pattern frequency must be between 0.0 and 1.0"] >>

\* The error of the first check that fails, or "Ok".
first_error(checks) ==
    LET at == {i \in 1 .. Len(checks) : checks[i].failed}
    IN  IF at = {} THEN "Ok"
        ELSE checks[CHOOSE i \in at : \A j \in at : i <= j].err

\* Mutant: Ok is returned after the check of max_syllables.
validate_returning_early(p) == first_error(SubSeq(validation_checks(p), 1, 8))

\* LanguageProfile::validate: "Ok" or the message of the Err.
validate(p) == first_error(validation_checks(p))

\* ------------------------------------------------------------------ state

VARIABLES
    profile,        \* the LanguageProfile the generator borrows (never written)
    hash_order,     \* iteration order of profile.phonetic_inventory.phoneme_groups
    seeded,         \* TRUE: every call gets a generator built from the same seed
    schedule,       \* "sequential": one caller; "interleaved": one thread per call
    pattern_call,   \* the call of Pattern::generate_with_context, if one is made
    builder_call,   \* the call of a sampler or of generate_syllable on its own, if one is made
    tape,           \* seeded: the values that seed delivers, as far as drawn
    pc,             \* per call: where generate stands
    draws,          \* per call: number of values taken from the rng passed in
    gate_draws,     \* per call: number of values taken from rand::thread_rng()
    syllable_count, \* per call: the local syllable_count
    syllables,      \* per call: the local Vec<Syllable>
    rule_index,     \* per call: next rule of the loop of apply_harmony_rules
    before,         \* per call: syllables as they were when the latest rule began
    missed,         \* per call: a cluster draw returned None while building
    log,            \* per call: the steps of generate taken so far, in order
    name            \* per call: the String returned

vars == <<profile, hash_order, seeded, schedule, pattern_call, builder_call, tape, pc, draws,
          gate_draws, syllable_count, syllables, rule_index, before, missed, log, name>>

\* No pattern is generated from: the caller uses the profile generator only.
NoPatternCall == [state |-> "none"]

\* No sampler and no syllable builder is called on its own.
NoBuilderCall == [state |-> "none"]

harmony_rules == profile.style_rules.harmony_rules

InitCall(running) ==
    /\ pc = [c \in Calls |-> IF c \in running THEN "start" ELSE "idle"]
    /\ draws = [c \in Calls |-> 0]
    /\ gate_draws = [c \in Calls |-> 0]
    /\ syllable_count = [c \in Calls |-> 0]
    /\ syllables = [c \in Calls |-> <<>>]
    /\ rule_index = [c \in Calls |-> 1]
    /\ before = [c \in Calls |-> <<>>]
    /\ missed = [c \in Calls |-> FALSE]
    /\ log = [c \in Calls |-> <<>>]
    /\ name = [c \in Calls |-> <<>>]

\* One call with an unseeded generator (thread_rng(), as the tests pass).
Init ==
    /\ profile \in Profiles
    /\ hash_order \in IterationOrders(DOMAIN profile.phonetic_inventory.phoneme_groups)
    /\ seeded = FALSE
    /\ schedule = "sequential"
    /\ pattern_call = NoPatternCall
    /\ builder_call = NoBuilderCall
    /\ tape = <<>>
    /\ InitCall({1})

\* MaxCalls calls, one after the other, each with a generator of the same seed.
InitSeeded ==
    /\ profile \in SeededProfiles
    /\ hash_order \in IterationOrders(DOMAIN profile.phonetic_inventory.phoneme_groups)
    /\ seeded = TRUE
    /\ schedule = "sequential"
    /\ pattern_call = NoPatternCall
    /\ builder_call = NoBuilderCall
    /\ tape = <<>>
    /\ InitCall(Calls)

\* MaxCalls calls on threads of their own that share the profile, each with
\* a generator of its own built from the same seed.
InitInterleaved ==
    /\ profile \in SeededProfiles
    /\ hash_order \in IterationOrders(DOMAIN profile.phonetic_inventory.phoneme_groups)
    /\ seeded = TRUE
    /\ schedule = "interleaved"
    /\ pattern_call = NoPatternCall
    /\ builder_call = NoBuilderCall
    /\ tape = <<>>
    /\ InitCall(Calls)

\* One call on a profile whose only rule is vowel_harmony.
InitHarmony ==
    /\ profile \in HarmonyProfiles
    /\ hash_order \in IterationOrders(DOMAIN profile.phonetic_inventory.phoneme_groups)
    /\ seeded = FALSE
    /\ schedule = "sequential"
    /\ pattern_call = NoPatternCall
    /\ builder_call = NoBuilderCall
    /\ tape = <<>>
    /\ InitCall({1})

\* One call on a profile whose only rule is stress_dependent_vowel_quality.
InitQuality ==
    /\ profile \in QualityProfiles
    /\ hash_order \in IterationOrders(DOMAIN profile.phonetic_inventory.phoneme_groups)
    /\ seeded = FALSE
    /\ schedule = "sequential"
    /\ pattern_call = NoPatternCall
    /\ builder_call = NoBuilderCall
    /\ tape = <<>>
    /\ InitCall({1})

\* Call c takes the values vals from the rng passed to it.
Deliver(c, vals) ==
    LET end == draws[c] + Len(vals)
    IN  /\ seeded => \A i \in 1 .. Len(vals) :
                        draws[c] + i <= Len(tape) => tape[draws[c] + i] = vals[i]
        /\ tape' = IF seeded /\ end > Len(tape)
                   THEN SubSeq(tape, 1, draws[c]) \o vals
                   ELSE tape
        /\ draws' = [draws EXCEPT ![c] = end]

\* ------------------------------------------------------------------ generate

\* A call that returned, panicked, or got an error from a rule.
Ended(c) == pc[c] \in {"done", "panicked", "failed"}

\* A caller makes its calls one after the other; calls on threads of their
\* own take their steps in any order.
Turn(c) == schedule = "interleaved" \/ \A d \in Calls : d < c => Ended(d)

\* Call c has taken the step op (of rule number arg, 0 when not a rule).
Logged(c, op, arg) == log' = [log EXCEPT ![c] = Append(@, [op |-> op, arg |-> arg])]

\* let syllable_count = rng.gen_range(min_syllables..=max_syllables);
\* gen_range panics on an empty range.
ChooseLength(c) ==
    /\ Turn(c)
    /\ pc[c] = "start"
    /\ LET lo == profile.word_composition.min_syllables
           hi == profile.word_composition.max_syllables
       IN  IF lo > hi
           THEN /\ pc' = [pc EXCEPT ![c] = "panicked"]
                /\ UNCHANGED <<tape, draws, syllable_count, log>>
           ELSE \E v \in RngValues :
                   LET n == gen_range_inclusive(lo, hi, v)
                   IN  /\ Deliver(c, <<v>>)
                       /\ Logged(c, "choose_length", 0)
                       /\ syllable_count' = [syllable_count EXCEPT ![c] = n]
                       /\ pc' = [pc EXCEPT ![c] = IF n = 0 THEN "stress" ELSE "generate"]
    /\ UNCHANGED <<profile, hash_order, seeded, schedule, pattern_call,
                   builder_call, gate_draws, syllables, rule_index,
                   before, missed, name>>

\* One iteration of `for _i in 0..syllable_count`: generate_syllable and push.
\* The expect on get_random_pattern panics when it returned None; a panic
\* of a cluster draw unwinds through generate_syllable and generate.
GenerateSyllable(c) ==
    /\ Turn(c)
    /\ pc[c] = "generate"
    /\ \E v \in RngValues :
         LET drawn == get_random_pattern(profile.syllable_structure, v)
         IN  IF ~drawn.result.some
             THEN /\ pc' = [pc EXCEPT ![c] = "panicked"]
                  /\ UNCHANGED <<tape, draws, syllables, missed, log>>
             ELSE \E vs \in [1 .. Len(drawn.result.val.pattern) -> RngValues] :
                    LET built == generate_syllable(profile, drawn.result.val, vs)
                        taken == (IF drawn.used = 1 THEN <<v>> ELSE <<>>)
                                     \o SubSeq(vs, 1, built.used)
                    IN  IF built.panicked
                        THEN /\ pc' = [pc EXCEPT ![c] = "panicked"]
                             /\ Deliver(c, taken)
                             /\ UNCHANGED <<syllables, missed, log>>
                        ELSE /\ Deliver(c, taken)
                             /\ Logged(c, "generate_syllable", 0)
                             /\ syllables' = [syllables EXCEPT ![c] = Append(@, built.syllable)]
                             /\ missed' = [missed EXCEPT ![c] = @ \/ built.missed]
                             /\ pc' = [pc EXCEPT ![c] =
                                          IF Len(syllables[c]) + 1 = syllable_count[c]
                                          THEN "stress" ELSE "generate"]
    /\ UNCHANGED <<profile, hash_order, seeded, schedule, pattern_call,
                   builder_call, gate_draws, syllable_count,
                   rule_index, before, name>>

\* self.assign_stress_patterns(&mut syllables);
AssignStress(c) ==
    /\ Turn(c)
    /\ pc[c] = "stress"
    /\ syllables' = [syllables EXCEPT ![c] = assign_stress_patterns(@)]
    /\ pc' = [pc EXCEPT ![c] = "rules"]
    /\ Logged(c, "assign_stress_patterns", 0)
    /\ UNCHANGED <<profile, hash_order, seeded, schedule, pattern_call,
                   builder_call, tape, draws, gate_draws, syllable_count,
                   rule_index, before, missed, name>>

\* Mutant: the loop steps over every second rule.
next_rule_skipping(i) == i + 2

\* The rule the loop of apply_harmony_rules takes after the one at index i.
next_rule(i) == i + 1

\* One iteration of `for rule in &self.profile.style_rules.harmony_rules`;
\* the gated rules draw from their own rand::thread_rng().
ApplyRule(c) ==
    /\ Turn(c)
    /\ pc[c] = "rules"
    /\ rule_index[c] <= Len(harmony_rules)
    /\ LET rule == harmony_rules[rule_index[c]]
       IN  /\ \E open \in [1 .. Len(syllables[c]) -> gate_outcomes(rule.strength)] :
                 syllables' = [syllables EXCEPT ![c] =
                     apply_harmony_rule(profile, hash_order, @, rule, open)]
           /\ pc' = [pc EXCEPT ![c] = IF rule_result(rule) = "Ok" THEN @ ELSE "failed"]
    /\ gate_draws' = [gate_draws EXCEPT ![c] =
                          @ + gates_drawn(syllables[c], harmony_rules[rule_index[c]])]
    /\ before' = [before EXCEPT ![c] = syllables[c]]
    /\ Logged(c, "apply_rule", rule_index[c])
    /\ rule_index' = [rule_index EXCEPT ![c] = next_rule(@)]
    /\ UNCHANGED <<profile, hash_order, seeded, schedule, pattern_call,
                   builder_call, tape, draws, syllable_count,
                   missed, name>>

\* self.convert_to_graphemes(&syllables), once apply_harmony_rules returned.
Render(c) ==
    /\ Turn(c)
    /\ pc[c] = "rules"
    /\ rule_index[c] > Len(harmony_rules)
    /\ name' = [name EXCEPT ![c] = convert_to_graphemes(profile, syllables[c])]
    /\ pc' = [pc EXCEPT ![c] = "done"]
    /\ Logged(c, "convert_to_graphemes", 0)
    /\ UNCHANGED <<profile, hash_order, seeded, schedule, pattern_call,
                   builder_call, tape, draws, gate_draws, syllable_count,
                   syllables, rule_index, before, missed>>

Next ==
    \E c \in Calls :
        \/ ChooseLength(c)
        \/ GenerateSyllable(c)
        \/ AssignStress(c)
        \/ ApplyRule(c)
        \/ Render(c)

Spec == Init /\ [][Next]_vars

SpecSeeded == InitSeeded /\ [][Next]_vars

SpecInterleaved == InitInterleaved /\ [][Next]_vars

SpecHarmony == InitHarmony /\ [][Next]_vars

SpecQuality == InitQuality /\ [][Next]_vars

\* The simple test profile changed the ways validate looks at: the name,
\* the inventory, a key "[invalid]" in a cluster or a group, the syllable
\* range, the templates, the nuclei, and the frequencies.
ValidateProfiles ==
    LET base == SimpleTestProfile
        invalid == PhonemeCluster(<<"[invalid]">>, Half)
    IN  { [base EXCEPT
             !.name = profile_name,
             !.phonetic_inventory.phonemes = phonemes,
             !.phonetic_inventory.phoneme_groups = phoneme_groups,
             !.syllable_structure.patterns = patterns,
             !.syllable_structure.onsets = onsets,
             !.syllable_structure.nuclei = nuclei,
             !.syllable_structure.codas = codas,
             !.word_composition.min_syllables = range[1],
             !.word_composition.max_syllables = range[2]] :
          profile_name \in {"", "Test"},
          phonemes \in { base.phonetic_inventory.phonemes, <<>>,
                         [base.phonetic_inventory.phonemes EXCEPT ![1].frequency = One + 1] },
          phoneme_groups \in { NoGroups, "vowels" :> <<"[a]", "[i]">>,
                               "vowels" :> <<"[a]", "[invalid]">> },
          patterns \in { base.syllable_structure.patterns, <<>>,
                         <<SyllablePattern(<<"C", "V">>, 0 - 1)>> },
          onsets \in { base.syllable_structure.onsets,
                       Append(base.syllable_structure.onsets, invalid) },
          nuclei \in { base.syllable_structure.nuclei, <<>>, <<invalid>> },
          codas \in { base.syllable_structure.codas, <<invalid>> },
          range \in { <<1, 3>>, <<0, 3>>, <<2, 1>>, <<1, 1>> } }

\* A profile is loaded and not yet validated.
InitValidate ==
    /\ profile \in ValidateProfiles
    /\ hash_order \in IterationOrders(DOMAIN profile.phonetic_inventory.phoneme_groups)
    /\ seeded = FALSE
    /\ schedule = "sequential"
    /\ pattern_call = NoPatternCall
    /\ builder_call = NoBuilderCall
    /\ tape = <<>>
    /\ pc = [c \in Calls |-> IF c = 1 THEN "loaded" ELSE "idle"]
    /\ draws = [c \in Calls |-> 0]
    /\ gate_draws = [c \in Calls |-> 0]
    /\ syllable_count = [c \in Calls |-> 0]
    /\ syllables = [c \in Calls |-> <<>>]
    /\ rule_index = [c \in Calls |-> 1]
    /\ before = [c \in Calls |-> <<>>]
    /\ missed = [c \in Calls |-> FALSE]
    /\ log = [c \in Calls |-> <<>>]
    /\ name = [c \in Calls |-> <<>>]

\* profile.validate(): on Ok the caller goes on to generate, on Err it has
\* the message.
Validate(c) ==
    /\ pc[c] = "loaded"
    /\ pc' = [pc EXCEPT ![c] = IF validate(profile) = "Ok" THEN "start" ELSE "rejected"]
    /\ log' = [log EXCEPT ![c] = <<[op |-> "validate", arg |-> validate(profile)]>>]
    /\ UNCHANGED <<profile, hash_order, seeded, schedule, pattern_call,
                   builder_call, tape, draws, gate_draws,
                   syllable_count, syllables, rule_index, before, missed, name>>

NextValidate == \E c \in Calls : Validate(c)

\* Category::generate before the call: a parsed pattern, the category's
\* rules and `let mut context = String::new()`.
InitPattern ==
    /\ profile = SimpleTestProfile
    /\ hash_order = <<>>
    /\ seeded = FALSE
    /\ schedule = "sequential"
    /\ \E root_node \in Patterns, rules \in RuleSets :
          pattern_call = [state |-> "ready", root_node |-> root_node, rules |-> rules,
                          context |-> <<>>, name |-> <<>>, used |-> 0]
    /\ builder_call = NoBuilderCall
    /\ tape = <<>>
    /\ pc = [c \in Calls |-> "idle"]
    /\ draws = [c \in Calls |-> 0]
    /\ gate_draws = [c \in Calls |-> 0]
    /\ syllable_count = [c \in Calls |-> 0]
    /\ syllables = [c \in Calls |-> <<>>]
    /\ rule_index = [c \in Calls |-> 1]
    /\ before = [c \in Calls |-> <<>>]
    /\ missed = [c \in Calls |-> FALSE]
    /\ log = [c \in Calls |-> <<>>]
    /\ name = [c \in Calls |-> <<>>]

\* Pattern::generate_with_context(rng, &mut context, rules), rng delivering vs.
GeneratePattern ==
    /\ pattern_call.state = "ready"
    /\ \E vs \in [1 .. MaxPatternDraws -> RngValues] :
          LET generated == generate_with_context(pattern_call.root_node, vs,
                                                 pattern_call.context, pattern_call.rules)
          IN  pattern_call' = [pattern_call EXCEPT !.state = "returned",
                                                   !.context = generated.context,
                                                   !.name = generated.result,
                                                   !.used = MaxPatternDraws - Len(generated.rest)]
    /\ UNCHANGED <<profile, hash_order, seeded, schedule, builder_call, tape, pc, draws,
                   gate_draws, syllable_count, syllables, rule_index, before, missed,
                   log, name>>

NextPattern == GeneratePattern

SpecPattern == InitPattern /\ [][NextPattern]_vars

\* A generator on a profile, before a sampler or generate_syllable is
\* called on it directly (as the unit tests do).
InitBuilder ==
    /\ profile \in BuilderProfiles
    /\ hash_order = <<>>
    /\ seeded = FALSE
    /\ schedule = "sequential"
    /\ pattern_call = NoPatternCall
    /\ builder_call = [state |-> "ready"]
    /\ tape = <<>>
    /\ pc = [c \in Calls |-> "idle"]
    /\ draws = [c \in Calls |-> 0]
    /\ gate_draws = [c \in Calls |-> 0]
    /\ syllable_count = [c \in Calls |-> 0]
    /\ syllables = [c \in Calls |-> <<>>]
    /\ rule_index = [c \in Calls |-> 1]
    /\ before = [c \in Calls |-> <<>>]
    /\ missed = [c \in Calls |-> FALSE]
    /\ log = [c \in Calls |-> <<>>]
    /\ name = [c \in Calls |-> <<>>]

\* The variables a direct call of a sampler or of the builder leaves alone.
BuilderFrame ==
    UNCHANGED <<profile, hash_order, seeded, schedule, pattern_call, tape, pc, draws,
                gate_draws, syllable_count, syllables, rule_index, before, missed,
                log, name>>

\* structure.get_random_pattern(&mut rng), rng delivering v.
SamplePattern ==
    /\ builder_call.state = "ready"
    /\ \E v \in RngValues :
          builder_call' = [state |-> "returned", op |-> "get_random_pattern",
                           list |-> profile.syllable_structure.patterns, v |-> v,
                           result |-> get_random_pattern(profile.syllable_structure, v).result]
    /\ BuilderFrame

\* How a call that gave the record r ended.
Outcome(r) == IF r.panicked THEN "panicked" ELSE "returned"

\* self.choose_onset(rng), self.choose_nucleus(rng) or self.choose_coda(rng),
\* rng delivering v.
SampleCluster ==
    /\ builder_call.state = "ready"
    /\ \E v \in RngValues :
          \/ builder_call' = [state |-> Outcome(choose_onset(profile, v)),
                              op |-> "weighted_choice",
                              list |-> profile.syllable_structure.onsets, v |-> v,
                              result |-> choose_onset(profile, v).result]
          \/ builder_call' = [state |-> Outcome(choose_nucleus(profile, v)),
                              op |-> "weighted_choice",
                              list |-> profile.syllable_structure.nuclei, v |-> v,
                              result |-> choose_nucleus(profile, v).result]
          \/ builder_call' = [state |-> Outcome(choose_coda(profile, v)),
                              op |-> "weighted_choice",
                              list |-> profile.syllable_structure.codas, v |-> v,
                              result |-> choose_coda(profile, v).result]
    /\ BuilderFrame

\* generator.generate_syllable(&mut rng, &[]): taken are the values the
\* cluster draws took from rng, steps[i] the local syllable (with the number
\* of values taken so far) after the i-th character of the pattern.
BuildSyllable ==
    /\ builder_call.state = "ready"
    /\ \E v \in RngValues :
          LET drawn == get_random_pattern(profile.syllable_structure, v)
          IN  IF ~drawn.result.some
              THEN builder_call' = [state |-> "panicked", op |-> "generate_syllable"]
              ELSE \E vs \in [1 .. Len(drawn.result.val.pattern) -> RngValues] :
                     LET pattern == drawn.result.val
                         built == generate_syllable(profile, pattern, vs)
                         after(i) ==
                             generate_syllable(profile,
                                 [pattern EXCEPT !.pattern = SubSeq(@, 1, i)], vs)
                     IN  builder_call' =
                             [state |-> Outcome(built), op |-> "generate_syllable",
                              pattern |-> pattern.pattern,
                              taken |-> SubSeq(vs, 1, built.used),
                              steps |-> [i \in 1 .. Len(pattern.pattern) |-> after(i)],
                              syllable |-> built.syllable]
    /\ BuilderFrame

NextBuilder == SamplePattern \/ SampleCluster \/ BuildSyllable

SpecBuilder == InitBuilder /\ [][NextBuilder]_vars

SpecValidate == InitValidate /\ [][NextValidate]_vars

\* The simple test profile with words of at most 2 syllables, changed in
\* what validate rejects (no template, no nucleus, a bad syllable range)
\* and in what it does not look at: the frequencies of the clusters
\* (negative, zero, summing beyond the largest f32, infinite), a list
\* without clusters, templates without "V" or with other characters, and
\* rules.
LoadedProfiles ==
    LET base == SimpleTestProfile
        weighted(clusters, w) == [i \in 1 .. Len(clusters) |-> [clusters[i] EXCEPT !.frequency = w]]
    IN  { [base EXCEPT
             !.syllable_structure.patterns = patterns,
             !.syllable_structure.onsets = onsets,
             !.syllable_structure.nuclei = nuclei,
             !.syllable_structure.codas = codas,
             !.word_composition.min_syllables = range[1],
             !.word_composition.max_syllables = range[2],
             !.style_rules.harmony_rules = rules] :
          patterns \in { base.syllable_structure.patterns, <<>>,
                         <<SyllablePattern(<<"C", "x">>, 0), SyllablePattern(<<"V", "C">>, 0)>> },
          onsets \in { base.syllable_structure.onsets,
                       <<>>,
                       weighted(base.syllable_structure.onsets, 0),
                       [base.syllable_structure.onsets EXCEPT ![2].frequency = 0 - 1],
                       weighted(base.syllable_structure.onsets, 60 * One),
                       [base.syllable_structure.onsets EXCEPT ![3].frequency = F32Max + 1] },
          nuclei \in { base.syllable_structure.nuclei, <<>> },
          codas \in { base.syllable_structure.codas,
                      weighted(base.syllable_structure.codas, 60 * One) },
          range \in { <<1, 2>>, <<0, 1>>, <<2, 1>> },
          rules \in { <<>>, <<HarmonyRule("vowel_reduction", Half),
                              HarmonyRule("custom_rule", One)>> } }

\* LanguageProfile::load_from_file after the profile is parsed: validate
\* comes next, and generate only on a profile it accepts.
InitLoaded ==
    /\ profile \in LoadedProfiles
    /\ hash_order \in IterationOrders(DOMAIN profile.phonetic_inventory.phoneme_groups)
    /\ seeded = FALSE
    /\ schedule = "sequential"
    /\ pattern_call = NoPatternCall
    /\ builder_call = NoBuilderCall
    /\ tape = <<>>
    /\ pc = [c \in Calls |-> IF c = 1 THEN "loaded" ELSE "idle"]
    /\ draws = [c \in Calls |-> 0]
    /\ gate_draws = [c \in Calls |-> 0]
    /\ syllable_count = [c \in Calls |-> 0]
    /\ syllables = [c \in Calls |-> <<>>]
    /\ rule_index = [c \in Calls |-> 1]
    /\ before = [c \in Calls |-> <<>>]
    /\ missed = [c \in Calls |-> FALSE]
    /\ log = [c \in Calls |-> <<>>]
    /\ name = [c \in Calls |-> <<>>]

NextLoaded ==
    \E c \in Calls :
        \/ Validate(c)
        \/ ChooseLength(c)
        \/ GenerateSyllable(c)
        \/ AssignStress(c)
        \/ ApplyRule(c)
        \/ Render(c)

SpecLoaded == InitLoaded /\ [][NextLoaded]_vars

\* What the engine assumes of its input: a template, a nucleus cluster,
\* 1 <= min_syllables <= max_syllables, every cluster key declared.
SatisfiesInputInvariants(p) ==
    /\ p.syllable_structure.patterns # <<>>
    /\ p.syllable_structure.nuclei # <<>>
    /\ p.word_composition.min_syllables >= 1
    /\ p.word_composition.max_syllables >= p.word_composition.min_syllables
    /\ \A clusters \in {p.syllable_structure.onsets, p.syllable_structure.nuclei,
                         p.syllable_structure.codas} :
          \A i \in 1 .. Len(clusters) :
             \A ipa \in Range(clusters[i].phonemes) :
                get_phoneme(p.phonetic_inventory, ipa).some

\* Profiles that satisfy them, with and without rules.
TerminationProfiles ==
    { p \in {ScenarioAProfile} \cup DegenerateProfiles
            \cup FixedLengthProfiles \cup ClusterProfiles
            \cup UndeclaredReducedProfiles \cup ScriptedProfiles :
        SatisfiesInputInvariants(p) }

\* One call on such a profile.
InitTermination ==
    /\ profile \in TerminationProfiles
    /\ hash_order \in IterationOrders(DOMAIN profile.phonetic_inventory.phoneme_groups)
    /\ seeded = FALSE
    /\ schedule = "sequential"
    /\ pattern_call = NoPatternCall
    /\ builder_call = NoBuilderCall
    /\ tape = <<>>
    /\ InitCall({1})

\* generate is synchronous: a call that can take a step takes it.
SpecTermination == InitTermination /\ [][Next]_vars /\ WF_vars(Next)

\* Longest word handed to convert_to_graphemes directly.
MaxRenderLen == 2

\* Syllables whose slots are empty or hold declared keys, keys with a
\* two-character written form ("[k]") and keys without a phoneme entry ("[y]").
RenderSyllables ==
    { Syllable(onset, nucleus, coda, FALSE) :
        onset \in {<<>>, <<"[k]">>, <<"[y]", "[t]">>},
        nucleus \in {<<>>, <<"[a]">>, <<"[y]">>},
        coda \in {<<>>, <<"[s]">>, <<"[t]", "[y]">>} }

RenderWords == UNION { [1 .. n -> RenderSyllables] : n \in 0 .. MaxRenderLen }

\* convert_to_graphemes called on any word: generate stands behind
\* apply_harmony_rules with an empty rule list.
InitRender ==
    /\ profile = LanguageProfile(RuleInventory(FALSE), NoGroups,
                     <<SyllablePattern(<<"C", "V", "C">>, One)>>,
                     <<>>, <<>>, <<>>, 0, MaxRenderLen, <<>>)
    /\ hash_order = <<>>
    /\ seeded = FALSE
    /\ schedule = "sequential"
    /\ pattern_call = NoPatternCall
    /\ builder_call = NoBuilderCall
    /\ tape = <<>>
    /\ \E word \in RenderWords :
          /\ pc = [c \in Calls |-> IF c = 1 THEN "rules" ELSE "idle"]
          /\ syllables = [c \in Calls |-> IF c = 1 THEN word ELSE <<>>]
          /\ syllable_count = [c \in Calls |-> IF c = 1 THEN Len(word) ELSE 0]
    /\ draws = [c \in Calls |-> 0]
    /\ gate_draws = [c \in Calls |-> 0]
    /\ rule_index = [c \in Calls |-> 1]
    /\ before = [c \in Calls |-> <<>>]
    /\ missed = [c \in Calls |-> FALSE]
    /\ log = [c \in Calls |-> <<>>]
    /\ name = [c \in Calls |-> <<>>]

NextRender == \E c \in Calls : Render(c)

SpecRender == InitRender /\ [][NextRender]_vars

\* ------------------------------------------------------------------ properties

inventory == profile.phonetic_inventory

structure == profile.syllable_structure

lo_syllables == profile.word_composition.min_syllables

hi_syllables == profile.word_composition.max_syllables

\* The rule call c applied last (rule_index[c] > 1): the one its last step
\* names.
LastRule(c) == harmony_rules[log[c][Len(log[c])].arg]

\* Call c has just run the rule called rule_name: syllables[c] is what the
\* rule left, before[c] what it was given.
JustApplied(c, rule_name) ==
    /\ pc[c] = "rules"
    /\ rule_index[c] > 1
    /\ LastRule(c).name = rule_name

\* 0-based indexes of the stressed syllables.
StressedSet(word) == {i - 1 : i \in {j \in 1 .. Len(word) : word[j].stressed}}

Declared(ipa) == \E i \in 1 .. Len(inventory.phonemes) : inventory.phonemes[i].ipa = ipa

Min(a, b) == IF a < b THEN a ELSE b

\* C1: two calls of generate on the same profile whose generators deliver
\* the same sequence of values return the same string.
C1_Determinism ==
    \A c, d \in Calls : (pc[c] = "done" /\ pc[d] = "done") => name[c] = name[d]

\* C2: a call that met an empty template list, or a 'C'/'V' marker whose
\* cluster list is empty, fails; it does not return a name.
C2_LoudPreconditionFailure ==
    \A c \in Calls :
        pc[c] = "done" =>
            /\ ~missed[c]
            /\ syllable_count[c] > 0 => structure.patterns # <<>>

\* C3: over a non-empty list whose weights sum to <= 0 every item is a
\* possible result of the sampler, for the templates (get_random_pattern)
\* and for the onset, nucleus and coda clusters (weighted_choice).
C3_ZeroTotalUniform ==
    /\ (structure.patterns # <<>> /\ SumFrequency(structure.patterns) <= 0) =>
          \A i \in 1 .. Len(structure.patterns) :
             \E v \in RngValues :
                get_random_pattern(structure, v).result = Some(structure.patterns[i])
    /\ \A clusters \in {structure.onsets, structure.nuclei, structure.codas} :
          (clusters # <<>> /\ SumFrequency(clusters) <= 0) =>
             \A i \in 1 .. Len(clusters) :
                \E v \in RngValues :
                   weighted_choice(clusters, v).result = Some(clusters[i])

\* C4: with 1 <= min_syllables <= max_syllables the number of syllables
\* drawn lies in min_syllables .. max_syllables, every number of that
\* range can be drawn, and the word has that many syllables once built
\* and when it is rendered.
C4_SyllableCountRange ==
    (1 <= lo_syllables /\ lo_syllables <= hi_syllables) =>
        /\ \A n \in lo_syllables .. hi_syllables :
              \E v \in RngValues : gen_range_inclusive(lo_syllables, hi_syllables, v) = n
        /\ \A c \in Calls :
              /\ pc[c] \in {"generate", "stress", "rules", "done"} =>
                    syllable_count[c] \in lo_syllables .. hi_syllables
              /\ pc[c] \in {"stress", "rules", "done"} =>
                    Len(syllables[c]) = syllable_count[c]

C4_Witness ==
    /\ 1 <= lo_syllables /\ lo_syllables < hi_syllables
    /\ pc[1] = "done"
    /\ Len(syllables[1]) = hi_syllables

\* The stressed indexes the specification lists for words of 1 .. 5 syllables.
StressTable == <<{0}, {0}, {0, 2}, {0, 2}, {0, 2, 4}>>

\* C5: the syllables are built unstressed; right after
\* assign_stress_patterns syllable i (0-based) is stressed exactly when i
\* is even, an empty word is still empty, and words of 1 .. 5 syllables
\* have the stressed indexes {0}, {0}, {0,2}, {0,2}, {0,2,4}.
C5_StressPattern ==
    \A c \in Calls :
        /\ pc[c] \in {"generate", "stress"} => StressedSet(syllables[c]) = {}
        /\ (pc[c] = "rules" /\ rule_index[c] = 1) =>
              /\ \A i \in 1 .. Len(syllables[c]) :
                    syllables[c][i].stressed <=> (i - 1) % 2 = 0
              /\ syllable_count[c] = 0 => syllables[c] = <<>>
              /\ Len(syllables[c]) \in DOMAIN StressTable =>
                    StressedSet(syllables[c]) = StressTable[Len(syllables[c])]

C5_Witness ==
    /\ pc[1] = "rules" /\ rule_index[1] = 1
    /\ Len(syllables[1]) = 5
    /\ StressedSet(syllables[1]) = {0, 2, 4}

\* The steps a call that drew n syllables takes, in order.
Pipeline(n) ==
    <<[op |-> "choose_length", arg |-> 0]>>
    \o [i \in 1 .. n |-> [op |-> "generate_syllable", arg |-> 0]]
    \o <<[op |-> "assign_stress_patterns", arg |-> 0]>>
    \o [i \in 1 .. Len(harmony_rules) |-> [op |-> "apply_rule", arg |-> i]]
    \o <<[op |-> "convert_to_graphemes", arg |-> 0]>>

\* C6: a call builds all its syllables, then assigns stress, then applies
\* every rule of the list once, in list order, each to the syllables the
\* previous step left, and renders only after the last rule.
C6_PipelineOrder ==
    \A c \in Calls :
        pc[c] \in {"generate", "stress", "rules", "done"} =>
            LET steps == Pipeline(syllable_count[c])
            IN  /\ Len(log[c]) <= Len(steps)
                /\ log[c] = SubSeq(steps, 1, Len(log[c]))
                /\ pc[c] = "done" =>
                      /\ log[c] = steps
                      /\ name[c] = convert_to_graphemes(profile, syllables[c])
                /\ (pc[c] = "rules" /\ rule_index[c] > 1) =>
                      \E open \in [1 .. Len(before[c]) -> BOOLEAN] :
                         syllables[c] = apply_harmony_rule(profile, hash_order,
                                            before[c], LastRule(c), open)

C6_Witness ==
    /\ pc[1] = "done"
    /\ Len(harmony_rules) = 3
    /\ Len(syllables[1]) = 3
    /\ log[1] = Pipeline(3)
    /\ syllables[1] # before[1]

groups == inventory.phoneme_groups

DeclaredVowel(ipa) ==
    \E i \in 1 .. Len(inventory.phonemes) :
        inventory.phonemes[i].ipa = ipa /\ inventory.phonemes[i].phoneme_type = "Vowel"

HasDeclaredVowel(G) == \E k \in 1 .. Len(groups[G]) : DeclaredVowel(groups[G][k])

\* The first member of group G, in its listed order, declared as a Vowel.
FirstDeclaredVowel(G) ==
    groups[G][CHOOSE k \in 1 .. Len(groups[G]) :
                 /\ DeclaredVowel(groups[G][k])
                 /\ \A j \in 1 .. k - 1 : ~DeclaredVowel(groups[G][j])]

\* G is the first group, in the iteration order of the map, that contains ipa.
SelectedGroup(G, ipa) ==
    \E k \in 1 .. Len(hash_order) :
        /\ hash_order[k] = G
        /\ ipa \in Range(groups[G])
        /\ \A j \in 1 .. k - 1 : ipa \notin Range(groups[hash_order[j]])

\* After vowel_harmony, for the group G: every later syllable has the
\* one-symbol nucleus of G's first declared Vowel.
HarmonizedTo(c, G) ==
    \A i \in 2 .. Len(syllables[c]) :
        syllables[c][i].nucleus = <<FirstDeclaredVowel(G)>>

\* C7, as claimed: after vowel_harmony, whatever its strength, for any
\* group G that contains the first nucleus symbol of syllable 0 and has a
\* declared Vowel, every later syllable has the nucleus [v], v the first
\* declared Vowel of G.
C7_HarmonyAnyGroup ==
    \A c \in Calls :
        (JustApplied(c, "vowel_harmony") /\ before[c][1].nucleus # <<>>) =>
            \A G \in DOMAIN groups :
                (before[c][1].nucleus[1] \in Range(groups[G]) /\ HasDeclaredVowel(G))
                    => HarmonizedTo(c, G)

\* C7, amended: the same for the group G the lookup selects, the first
\* group in the iteration order of the map that contains the symbol (the
\* only group containing it when no symbol is in two groups).
C7_HarmonySelectedGroup ==
    \A c \in Calls :
        (JustApplied(c, "vowel_harmony") /\ before[c][1].nucleus # <<>>) =>
            \A G \in DOMAIN groups :
                (SelectedGroup(G, before[c][1].nucleus[1]) /\ HasDeclaredVowel(G))
                    => HarmonizedTo(c, G)

C7_Witness ==
    /\ JustApplied(1, "vowel_harmony")
    /\ LastRule(1).strength = 0
    /\ before[1][1].nucleus = <<"[e]">>
    /\ before[1][2].nucleus = <<"[a]">>
    /\ syllables[1][2].nucleus = <<"[e]">>

\* C8: vowel_reduction leaves every stressed syllable as it was; an
\* unstressed syllable is unchanged or has only its nucleus replaced by
\* [schwa]; nothing changes when the schwa is not declared; with strength
\* 1.0 and the schwa declared, in a word of 3 syllables stressed {0, 2}
\* exactly syllable 1 gets the nucleus [schwa].
C8_VowelReduction ==
    \A c \in Calls :
        JustApplied(c, "vowel_reduction") =>
            /\ Len(syllables[c]) = Len(before[c])
            /\ \A i \in 1 .. Len(before[c]) :
                  IF before[c][i].stressed
                  THEN syllables[c][i] = before[c][i]
                  ELSE \/ syllables[c][i] = before[c][i]
                       \/ syllables[c][i] = [before[c][i] EXCEPT !.nucleus = <<Schwa>>]
            /\ ~Declared(Schwa) => syllables[c] = before[c]
            /\ (/\ LastRule(c).strength = One
                /\ Declared(Schwa)
                /\ Len(before[c]) = 3
                /\ StressedSet(before[c]) = {0, 2}) =>
                  /\ syllables[c][1] = before[c][1]
                  /\ syllables[c][2].nucleus = <<Schwa>>
                  /\ syllables[c][3] = before[c][3]

C8_Witness ==
    /\ JustApplied(1, "vowel_reduction")
    /\ LastRule(1).strength = One
    /\ Len(before[1]) = 3
    /\ before[1][2].nucleus = <<"[a]">>
    /\ syllables[1][2].nucleus = <<Schwa>>
    /\ syllables[1][3].nucleus = <<"[a]">>

\* C9: a draw never passes the gate of strength 0.0 and always passes the
\* gate of strength 1.0; so a gated rule of strength 0.0 leaves every
\* syllable as it was, and one of strength 1.0 transforms every syllable
\* it applies to.
C9_RuleGating ==
    /\ \A v \in RngValues : ~gate(v, 0) /\ gate(v, One)
    /\ \A c \in Calls :
          (pc[c] = "rules" /\ rule_index[c] > 1 /\ LastRule(c).name \in GatedRules) =>
              /\ LastRule(c).strength = 0 => syllables[c] = before[c]
              /\ LastRule(c).strength = One =>
                    \A i \in 1 .. Len(before[c]) :
                       LET was == before[c][i]
                           now == syllables[c][i]
                       IN  /\ (LastRule(c).name = "vowel_reduction"
                               /\ ~was.stressed /\ Declared(Schwa)) =>
                                  now.nucleus = <<Schwa>>
                           /\ LastRule(c).name = "consonant_cluster_simplification" =>
                                  Len(now.onset) <= 2 /\ Len(now.coda) <= 2
                           /\ LastRule(c).name = "stress_dependent_vowel_quality" =>
                                  now = IF was.stressed
                                        THEN prefer_full_vowels(profile, hash_order, was)
                                        ELSE prefer_reduced_vowels(profile, hash_order, was)

C9_Witness ==
    /\ JustApplied(1, "stress_dependent_vowel_quality")
    /\ LastRule(1).strength = One
    /\ before[1][1].nucleus = <<"[I]">>
    /\ syllables[1][1].nucleus = <<"[e]">>
    /\ before[1][2].nucleus = <<"[a]">>
    /\ syllables[1][2].nucleus = <<Schwa>>

\* C10: consonant_cluster_simplification with strength 1.0 leaves of every
\* onset and coda the first min(2, length) symbols, in order; it never
\* changes a nucleus.
C10_ClusterSimplification ==
    \A c \in Calls :
        JustApplied(c, "consonant_cluster_simplification") =>
            /\ Len(syllables[c]) = Len(before[c])
            /\ \A i \in 1 .. Len(before[c]) :
                  /\ syllables[c][i].nucleus = before[c][i].nucleus
                  /\ LastRule(c).strength = One =>
                        /\ syllables[c][i].onset =
                              SubSeq(before[c][i].onset, 1, Min(2, Len(before[c][i].onset)))
                        /\ syllables[c][i].coda =
                              SubSeq(before[c][i].coda, 1, Min(2, Len(before[c][i].coda)))

C10_Witness ==
    /\ JustApplied(1, "consonant_cluster_simplification")
    /\ LastRule(1).strength = One
    /\ before[1][1].onset = <<"[s]", "[p]", "[t]">>
    /\ syllables[1][1].onset = <<"[s]", "[p]">>
    /\ before[1][1].coda = <<"[t]", "[s]">>
    /\ syllables[1][1].coda = <<"[t]", "[s]">>

\* Every key of the onset, nucleus and coda clusters of the profile has a
\* phoneme entry.
ClustersDeclared ==
    \A clusters \in {structure.onsets, structure.nuclei, structure.codas} :
        \A i \in 1 .. Len(clusters) :
            \A ipa \in Range(clusters[i].phonemes) : Declared(ipa)

\* The keys a word holds in its onsets, nuclei and codas.
Symbols(word) ==
    UNION { Range(word[i].onset) \cup Range(word[i].nucleus) \cup Range(word[i].coda) :
            i \in 1 .. Len(word) }

\* C11: when every cluster key of the profile is declared, every key in
\* every syllable's onset, nucleus and coda is declared, while the word is
\* built, after each rule and when it is rendered, also when a group lists
\* keys without a phoneme entry.
C11_NoUndeclaredSymbol ==
    ClustersDeclared =>
        \A c \in Calls : \A ipa \in Symbols(syllables[c]) : Declared(ipa)

RECURSIVE Concat(_)
\* The concatenation of a sequence of sequences.
Concat(seqs) == IF seqs = <<>> THEN <<>> ELSE seqs[1] \o Concat(Tail(seqs))

\* The keys of a word in syllable order, per syllable onset, nucleus, coda.
SymbolsInOrder(word) ==
    Concat([i \in 1 .. Len(word) |-> word[i].onset \o word[i].nucleus \o word[i].coda])

\* The written form of a declared key; nothing for any other key.
WrittenForm(ipa) ==
    IF Declared(ipa)
    THEN LET at == CHOOSE i \in 1 .. Len(inventory.phonemes) :
                       /\ inventory.phonemes[i].ipa = ipa
                       /\ \A j \in 1 .. i - 1 : inventory.phonemes[j].ipa # ipa
         IN  inventory.phonemes[at].grapheme
    ELSE <<>>

\* C12: the string a call returns is the concatenation, in syllable order
\* and per syllable in the order onset, nucleus, coda, of the written forms
\* of the declared keys of its word; keys without a phoneme entry add
\* nothing, nothing is put between the forms, and the renderer returns for
\* every word.
C12_Renderer ==
    \A c \in Calls :
        /\ pc[c] = "done" =>
              LET flat == SymbolsInOrder(syllables[c])
              IN  name[c] = Concat([i \in 1 .. Len(flat) |-> WrittenForm(flat[i])])
        /\ (pc[c] = "rules" /\ rule_index[c] > Len(harmony_rules)) => ENABLED Render(c)

C12_Witness ==
    /\ pc[1] = "done"
    /\ Len(syllables[1]) = 2
    /\ syllables[1][1].onset = <<"[y]", "[t]">>
    /\ syllables[1][1].nucleus = <<>>
    /\ syllables[1][2].onset = <<"[k]">>
    /\ syllables[1][2].coda = <<"[t]", "[y]">>
    /\ name[1] = <<"t", "c", "k", "t">>

\* The string generate returns for a one-syllable word when rng delivers v
\* for the template and vs for the clusters, the profile having no rules.
OneSyllableName(v, vs) ==
    convert_to_graphemes(profile, assign_stress_patterns(
        <<generate_syllable(profile, get_random_pattern(structure, v).result.val,
                            vs).syllable>>))

\* C13: on the scenario A profile no call panics, every string returned
\* has exactly 2 characters, the first of p, t, k and the second of a, e, i,
\* and each of the 9 such strings is returned for some values of the rng.
C13_ScenarioA ==
    profile = ScenarioAProfile =>
        /\ \A c \in Calls :
              /\ pc[c] # "panicked"
              /\ pc[c] = "done" =>
                    /\ Len(name[c]) = 2
                    /\ name[c][1] \in {"p", "t", "k"}
                    /\ name[c][2] \in {"a", "e", "i"}
        /\ \A first \in {"p", "t", "k"}, second \in {"a", "e", "i"} :
              \E v \in RngValues, vs \in [1 .. 2 -> RngValues] :
                 OneSyllableName(v, vs) = <<first, second>>

C13_Witness ==
    /\ profile = ScenarioAProfile
    /\ pc[1] = "done"
    /\ name[1] = <<"k", "i">>

\* Rule i of the list is no built-in and carries a script for which the
\* interpreter reports an error.
FailingExternalRule(i) ==
    /\ harmony_rules[i].name \notin BuiltinRules
    /\ harmony_rules[i].script.some
    /\ interpreter_reports_error(harmony_rules[i].script.val)

\* The steps of call c that applied a rule.
RuleSteps(c) == {k \in 1 .. Len(log[c]) : log[c][k].op = "apply_rule"}

C15_UnknownRuleNoOp ==
    \A c \in Calls :
        \A k \in RuleSteps(c) :
            harmony_rules[log[c][k].arg].name \notin BuiltinRules =>
                /\ k = Len(log[c]) => (syllables[c] = before[c] /\ pc[c] = "rules")
                /\ pc[c] = "done" =>
                      \A j \in log[c][k].arg + 1 .. Len(harmony_rules) :
                         \E later \in RuleSteps(c) : later > k /\ log[c][later].arg = j

C15_Witness ==
    /\ pc[1] = "done"
    /\ Len(harmony_rules) = 3
    /\ harmony_rules[2].name = "custom_rule"
    /\ harmony_rules[3].name = "consonant_cluster_simplification"
    /\ syllables[1][1].onset = <<"[s]", "[p]">>

\* The profile is the simple test profile, whatever its rule list.
IsSimpleTestProfile ==
    [profile EXCEPT !.style_rules.harmony_rules = <<>>] = SimpleTestProfile

\* C16: on the simple test profile, with no rules, with built-in rules or
\* with a rule of unknown name whose script is not Lua, no call panics or
\* fails and every string returned is non-empty.
C16_NameNonEmpty ==
    IsSimpleTestProfile =>
        \A c \in Calls :
            /\ pc[c] \notin {"panicked", "failed"}
            /\ pc[c] = "done" => name[c] # <<>>

C16_Witness ==
    /\ IsSimpleTestProfile
    /\ \E i \in 1 .. Len(harmony_rules) : FailingExternalRule(i)
    /\ pc[1] = "done"
    /\ Len(syllables[1]) = 3
    /\ name[1] # <<>>

\* C17: calls that share the profile and run interleaved, each with a
\* generator of its own, return what they return when run alone with the
\* values their generator delivers: two calls whose generators delivered
\* the same values built the same word and return the same string, since
\* no call uses state that is not its own.
C17_CallsIndependent ==
    \A c \in Calls : \A d \in Calls \ {c} :
        (pc[c] = "done" /\ pc[d] = "done" /\ draws[c] = draws[d]) =>
            /\ syllables[c] = syllables[d]
            /\ name[c] = name[d]

\* The longest template of the profile, in shape characters.
MaxShape ==
    LET lens == {Len(structure.patterns[i].pattern) : i \in 1 .. Len(structure.patterns)}
    IN  IF lens = {} THEN 0 ELSE CHOOSE n \in lens : \A m \in lens : m <= n

\* The rules call c has applied that draw gates.
GatedSteps(c) == {k \in RuleSteps(c) : harmony_rules[log[c][k].arg].name \in GatedRules}

\* Call c has taken at most one value for the syllable count, per syllable
\* built one for the template and one per shape character, and per gated
\* rule applied one gate value per syllable.
WithinDrawBudget(c) ==
    /\ Len(syllables[c]) <= syllable_count[c]
    /\ syllable_count[c] <= hi_syllables
    /\ draws[c] <= 1 + Len(syllables[c]) * (1 + MaxShape)
    /\ gate_draws[c] <= Cardinality(GatedSteps(c)) * syllable_count[c]
    /\ Cardinality(RuleSteps(c)) <= Len(harmony_rules)

\* C18: on a profile that satisfies the input invariants every call
\* returns, and until then it has taken no more values than: one for the
\* syllable count, per syllable one for the template and at most one per
\* shape character of the template, and per gated rule one per syllable.
C18_Termination ==
    /\ [](\A c \in Calls : WithinDrawBudget(c))
    /\ [](pc[1] = "start" =>
          \A i \in 1 .. Len(structure.patterns) :
            \A v \in RngValues :
               \A vs \in [1 .. Len(structure.patterns[i].pattern) -> RngValues] :
                  /\ get_random_pattern(structure, v).used <= 1
                  /\ generate_syllable(profile, structure.patterns[i], vs).used
                        <= Len(structure.patterns[i].pattern))
    /\ <>(pc[1] = "done")

C18_Witness ==
    /\ pc[1] = "done"
    /\ Len(harmony_rules) = 1
    /\ draws[1] = 5
    /\ gate_draws[1] = 2

\* Every key of every group has a phoneme entry.
GroupsDeclared ==
    \A g \in DOMAIN groups : \A ipa \in Range(groups[g]) : Declared(ipa)

\* C19: a profile that validate accepted has a template, a nucleus
\* cluster, 1 <= min_syllables <= max_syllables and only declared keys in
\* its onset, nucleus and coda clusters and in its groups; a profile that
\* lacks one of these is rejected with an error.
C19_ValidateEstablishesInvariants ==
    LET established == /\ structure.patterns # <<>>
                       /\ structure.nuclei # <<>>
                       /\ lo_syllables >= 1
                       /\ hi_syllables >= lo_syllables
                       /\ ClustersDeclared
                       /\ GroupsDeclared
    IN  \A c \in Calls :
            /\ pc[c] = "start" /\ log[c] # <<>> => established
            /\ (pc[c] \notin {"idle", "loaded"} /\ ~established) =>
                  /\ pc[c] = "rejected"
                  /\ log[c][1].arg # "Ok"

C19_Witness ==
    /\ pc[1] = "rejected"
    /\ log[1][1].arg = "Language profile must have at least one nucleus (vowel sound)"

\* ------------------------------------------------------------------ C20

\* The forbidden sequences of the rule set the pattern call was given.
ForbiddenIn(text) ==
    {i \in 1 .. Len(pattern_call.rules.val.forbidden_sequences) :
        contains(text, pattern_call.rules.val.forbidden_sequences[i])}

\* C20: a name returned by Pattern::generate_with_context with a rule set
\* contains none of that rule set's forbidden_sequences as a substring.
C20_ForbiddenSequencesNeverAppear ==
    (pattern_call.state = "returned" /\ pattern_call.rules.some)
        => ForbiddenIn(pattern_call.name) = {}

\* ------------------------------------------------------------------ C21

\* A sampler was called on a non-empty list whose weights sum to more than 0.
Sampled(op) ==
    /\ builder_call.state = "returned"
    /\ builder_call.op = op
    /\ builder_call.list # <<>>
    /\ SumFrequency(builder_call.list) > 0

RECURSIVE WalkFrom(_, _, _)
\* The walk from item i on, r being what is left of the draw, in units of
\* 1 / RngRes: the first item at which r <= 0, the last item if there is none.
WalkFrom(items, i, r) ==
    IF i > Len(items) THEN Len(items)
    ELSE IF r - RngRes * items[i].frequency <= 0 THEN i
    ELSE WalkFrom(items, i + 1, r - RngRes * items[i].frequency)

\* The index the walk returns for the draw v / RngRes.
Walk(items, v) == WalkFrom(items, 1, v * SumFrequency(items))

\* The draw meets no partial sum of the weights.
OffBoundary(items, v) ==
    \A i \in 1 .. Len(items) :
        v * SumFrequency(items) # RngRes * SumFrequency(SubSeq(items, 1, i))

HasNegativeWeight(items) == \E i \in 1 .. Len(items) : items[i].frequency < 0

\* The first index whose partial sum of weights is greater than the draw.
FirstAbove(items, v) ==
    CHOOSE i \in 1 .. Len(items) :
        /\ RngRes * SumFrequency(SubSeq(items, 1, i)) > v * SumFrequency(items)
        /\ \A j \in 1 .. i - 1 :
              RngRes * SumFrequency(SubSeq(items, 1, j)) <= v * SumFrequency(items)

Built == builder_call.state = "returned" /\ builder_call.op = "generate_syllable"

\* The local syllable, and the number of values taken, before the i-th
\* character of the shape is read.
StepBefore(i) ==
    IF i = 1 THEN [syllable |-> Syllable(<<>>, <<>>, <<>>, FALSE), used |-> 0]
    ELSE [syllable |-> builder_call.steps[i - 1].syllable,
          used |-> builder_call.steps[i - 1].used]

\* The i-th character changed nothing and took no value from rng.
NothingAt(i) ==
    /\ builder_call.steps[i].syllable = StepBefore(i).syllable
    /\ builder_call.steps[i].used = StepBefore(i).used

\* The i-th character took one value from rng and assigned to the slot the
\* symbols of the cluster the sampler returns for that value over the
\* list; the other slots are as they were.
AssignedAt(i, slot, list) ==
    /\ builder_call.steps[i].used = StepBefore(i).used + 1
    /\ builder_call.steps[i].used <= Len(builder_call.taken)
    /\ LET cluster == weighted_choice(list, builder_call.taken[builder_call.steps[i].used])
       IN  /\ cluster.result.some
           /\ builder_call.steps[i].syllable =
                  [StepBefore(i).syllable EXCEPT ![slot] = cluster.result.val.phonemes]

\* C22: scanning the shape left to right, a "C" read while the nucleus is
\* empty assigns the onset from a draw over the onset list, a "C" read
\* while the nucleus is non-empty assigns the coda from a draw over the
\* coda list, a "V" assigns the nucleus from a draw over the nucleus list
\* (the list drawn from being non-empty), and any other character changes
\* nothing and takes no random draw.
C22_SlotRouting ==
    Built =>
        \A i \in 1 .. Len(builder_call.pattern) :
            LET ch == builder_call.pattern[i]
                nucleus_empty == StepBefore(i).syllable.nucleus = <<>>
            IN  /\ (ch = "C" /\ nucleus_empty /\ structure.onsets # <<>>)
                      => AssignedAt(i, "onset", structure.onsets)
                /\ (ch = "C" /\ ~nucleus_empty /\ structure.codas # <<>>)
                      => AssignedAt(i, "coda", structure.codas)
                /\ (ch = "V" /\ structure.nuclei # <<>>)
                      => AssignedAt(i, "nucleus", structure.nuclei)
                /\ ch \notin {"C", "V"} => NothingAt(i)

\* The shape C C V C was read, every marker drew, and the "C" after the
\* nucleus went to the coda.
C22_Witness ==
    /\ Built
    /\ builder_call.pattern = <<"C", "C", "V", "C">>
    /\ Len(builder_call.taken) = 4
    /\ builder_call.syllable.onset # <<>>
    /\ builder_call.syllable.nucleus # <<>>
    /\ builder_call.syllable.coda # <<>>

\* ------------------------------------------------------------------ C23

\* The symbol sequences of the clusters of a list.
ClusterSequences(list) == {list[j].phonemes : j \in 1 .. Len(list)}

\* The slot the marker at position i fills, and the list it draws from.
SlotAt(i) ==
    IF builder_call.pattern[i] = "V" THEN "nucleus"
    ELSE IF StepBefore(i).syllable.nucleus = <<>> THEN "onset" ELSE "coda"

ListOf(slot) ==
    CASE slot = "onset" -> structure.onsets
      [] slot = "nucleus" -> structure.nuclei
      [] slot = "coda" -> structure.codas

\* C23: in the syllable the builder returns, each of onset, nucleus and
\* coda is empty or is the complete symbol sequence of one cluster of its
\* list; after two consecutive markers of the same kind the slot they fill
\* holds the sequence of the second draw only, never both draws joined.
C23_ReplaceNotAppend ==
    Built =>
        /\ builder_call.syllable.onset \in {<<>>} \cup ClusterSequences(structure.onsets)
        /\ builder_call.syllable.nucleus \in {<<>>} \cup ClusterSequences(structure.nuclei)
        /\ builder_call.syllable.coda \in {<<>>} \cup ClusterSequences(structure.codas)
        /\ \A i \in 2 .. Len(builder_call.pattern) :
              (/\ builder_call.pattern[i] \in {"C", "V"}
               /\ builder_call.pattern[i - 1] = builder_call.pattern[i]
               /\ ListOf(SlotAt(i)) # <<>>)
                  => /\ SlotAt(i - 1) = SlotAt(i)
                     /\ builder_call.steps[i].used <= Len(builder_call.taken)
                     /\ builder_call.steps[i].syllable[SlotAt(i)] =
                            weighted_choice(ListOf(SlotAt(i)),
                                builder_call.taken[builder_call.steps[i].used]).result.val.phonemes

\* Shape C C V: the first "C" drew the onset s t, the second drew p, and
\* the onset returned is p.
C23_Witness ==
    /\ Built
    /\ builder_call.pattern = <<"C", "C", "V">>
    /\ builder_call.steps[1].syllable.onset = <<"[s]", "[t]">>
    /\ builder_call.steps[2].syllable.onset = <<"[p]">>
    /\ builder_call.syllable.onset = <<"[p]">>

\* ------------------------------------------------------------------ C26

\* C26: for a profile with at least one nucleus cluster, every syllable
\* the syllable builder returns has a non-empty nucleus, whatever the
\* templates and the nucleus clusters of the profile.
C26_EverySyllableHasNucleus ==
    (Built /\ structure.nuclei # <<>>) => builder_call.syllable.nucleus # <<>>

\* ------------------------------------------------------------------ C27

\* C27: whenever the weights of a list sum to more than 0, the sampler
\* never returns an item of weight 0, for the templates and for the onset,
\* nucleus and coda clusters, on every draw.
C27_ZeroWeightNeverChosen ==
    \A op \in {"get_random_pattern", "weighted_choice"} :
        Sampled(op) =>
            (builder_call.result.some /\ builder_call.result.val.frequency # 0)

\* ------------------------------------------------------------------ C24

\* The group the lookup selects for ipa has no symbol declared as a Vowel.
SelectedGroupHasNoVowel(ipa) ==
    \E G \in DOMAIN groups : SelectedGroup(G, ipa) /\ ~HasDeclaredVowel(G)

InNoGroup(ipa) == \A G \in DOMAIN groups : ipa \notin Range(groups[G])

\* C24: vowel_harmony leaves every syllable as it was if the word is empty,
\* or syllable 0 has an empty nucleus, or the first nucleus symbol of
\* syllable 0 is in no group, or its group (the one the lookup selects)
\* has no symbol declared as a Vowel.
C24_HarmonyNoOp ==
    \A c \in Calls :
        (/\ JustApplied(c, "vowel_harmony")
         /\ \/ before[c] = <<>>
            \/ before[c][1].nucleus = <<>>
            \/ InNoGroup(before[c][1].nucleus[1])
            \/ SelectedGroupHasNoVowel(before[c][1].nucleus[1]))
            => syllables[c] = before[c]

\* Syllable 0 has the nucleus t, whose selected group lists no Vowel, while
\* another group of t lists one; the later syllable keeps its nucleus a.
C24_Witness ==
    /\ JustApplied(1, "vowel_harmony")
    /\ Len(before[1]) = 2
    /\ before[1][1].nucleus = <<"[t]">>
    /\ before[1][2].nucleus = <<"[a]">>
    /\ DOMAIN groups = {"stops", "front_vowels"}
    /\ SelectedGroupHasNoVowel("[t]")
    /\ syllables[1] = before[1]

\* ------------------------------------------------------------------ C30

\* v is the harmonizing vowel of the word: the first declared Vowel of the
\* group selected for the first nucleus symbol of syllable 0.
HarmonizingVowel(word, v) ==
    /\ word # <<>>
    /\ word[1].nucleus # <<>>
    /\ \E G \in DOMAIN groups :
          /\ SelectedGroup(G, word[1].nucleus[1])
          /\ HasDeclaredVowel(G)
          /\ v = FirstDeclaredVowel(G)

\* C30: vowel_harmony never changes syllable 0, never changes an onset, a
\* coda (or a stressed flag, or the number of syllables), and changes the
\* nucleus of a later syllable, empty or not, to nothing but the
\* one-symbol list of the harmonizing vowel.
C30_HarmonyFrame ==
    \A c \in Calls :
        JustApplied(c, "vowel_harmony") =>
            /\ Len(syllables[c]) = Len(before[c])
            /\ \A i \in 1 .. Len(before[c]) :
                  /\ i = 1 => syllables[c][i] = before[c][i]
                  /\ syllables[c][i].onset = before[c][i].onset
                  /\ syllables[c][i].coda = before[c][i].coda
                  /\ syllables[c][i].stressed = before[c][i].stressed
                  /\ \/ syllables[c][i].nucleus = before[c][i].nucleus
                     \/ \E v \in {inventory.phonemes[k].ipa : k \in 1 .. Len(inventory.phonemes)} :
                           /\ HarmonizingVowel(before[c], v)
                           /\ syllables[c][i].nucleus = <<v>>

\* A later syllable built from the template "C" had no nucleus and got the
\* harmonizing vowel e; syllable 0 kept its nucleus t.
C30_Witness ==
    /\ JustApplied(1, "vowel_harmony")
    /\ Len(before[1]) = 2
    /\ before[1][1].nucleus = <<"[t]">>
    /\ before[1][2].nucleus = <<>>
    /\ before[1][2].onset = <<"[p]">>
    /\ syllables[1][1] = before[1][1]
    /\ syllables[1][2].nucleus = <<"[e]">>
    /\ syllables[1][2].onset = <<"[p]">>

\* ipa is declared as a Vowel and is none of the reserved reduced symbols.
FullVowel(ipa) == DeclaredVowel(ipa) /\ ipa \notin ReducedVowels

HasMemberIn(G, S) == \E k \in 1 .. Len(groups[G]) : groups[G][k] \in S

\* The first member of group G, in its listed order, that is in S.
FirstMemberIn(G, S) ==
    groups[G][CHOOSE k \in 1 .. Len(groups[G]) :
                 /\ groups[G][k] \in S
                 /\ \A j \in 1 .. k - 1 : groups[G][j] \notin S]

\* The group members that are full vowels.
FullVowels == {ipa \in UNION {Range(groups[G]) : G \in DOMAIN groups} : FullVowel(ipa)}

\* What the claim says of one syllable under strength 1.0.
QualityOf(was) ==
    IF was.nucleus = <<>> THEN was
    ELSE LET c == was.nucleus[1]
             selected == {G \in DOMAIN groups : SelectedGroup(G, c)}
         IN  IF selected = {} THEN was
             ELSE LET G == CHOOSE G \in selected : TRUE
                  IN  IF was.stressed
                      THEN IF c \in ReducedVowels /\ HasMemberIn(G, FullVowels)
                           THEN [was EXCEPT !.nucleus = <<FirstMemberIn(G, FullVowels)>>]
                           ELSE was
                      ELSE IF ~FullVowel(c) THEN was
                           ELSE IF HasMemberIn(G, ReducedVowels)
                           THEN [was EXCEPT !.nucleus = <<FirstMemberIn(G, ReducedVowels)>>]
                           ELSE IF Declared(Schwa)
                           THEN [was EXCEPT !.nucleus = <<Schwa>>]
                           ELSE was

\* C25: stress_dependent_vowel_quality with strength 1.0, per syllable with
\* first nucleus symbol c: stressed, c reduced, and c's group has a declared
\* non-reduced Vowel: the nucleus becomes the first such member; unstressed,
\* c a declared non-reduced Vowel in some group: the nucleus becomes the
\* first reduced symbol listed in that group, or else the schwa if it is
\* declared; in every other case the syllable is unchanged.
C25_StressDependentQuality ==
    \A c \in Calls :
        (JustApplied(c, "stress_dependent_vowel_quality") /\ LastRule(c).strength = One) =>
            /\ Len(syllables[c]) = Len(before[c])
            /\ \A i \in 1 .. Len(before[c]) : syllables[c][i] = QualityOf(before[c][i])

C25_Witness ==
    /\ JustApplied(1, "stress_dependent_vowel_quality")
    /\ LastRule(1).strength = One
    /\ groups = ReducedGroups @@ FrontGroups
    /\ hash_order[1] = "front_vowels"
    /\ Len(before[1]) = 2
    /\ before[1][1].stressed /\ ~before[1][2].stressed
    /\ before[1][1].nucleus = <<"[I]">>
    /\ syllables[1][1].nucleus = <<"[e]">>
    /\ before[1][2].nucleus = <<"[e]", "[a]">>
    /\ syllables[1][2].nucleus = <<"[I]">>

\* The stressed flags of a word, in syllable order.
StressedFlags(word) == [i \in 1 .. Len(word) |-> word[i].stressed]

\* C28: no rule application (the four built-ins and unknown names, any
\* strength) changes the number of syllables or a stressed flag; after the
\* pipeline the stressed flags are exactly those the stress assigner set.
C28_RulesPreserveShape ==
    \A c \in Calls :
        /\ rule_index[c] > 1 =>
              /\ Len(syllables[c]) = Len(before[c])
              /\ StressedFlags(syllables[c]) = StressedFlags(before[c])
        /\ pc[c] \in {"rules", "failed", "done"} =>
              /\ Len(syllables[c]) = syllable_count[c]
              /\ \A i \in 1 .. Len(syllables[c]) :
                    syllables[c][i].stressed <=> (i - 1) % 2 = 0

C28_Witness ==
    /\ pc[1] = "done"
    /\ Len(harmony_rules) = 3
    /\ harmony_rules[1].name = "stress_dependent_vowel_quality"
    /\ Len(syllables[1]) = 3
    /\ StressedSet(syllables[1]) = {0, 2}
    /\ syllables[1][2].nucleus = <<Schwa>>
    /\ syllables[1][3].onset = <<"[s]", "[p]">>

\* validate accepted the profile of call c.
Validated(c) == log[c] # <<>> /\ log[c][1] = [op |-> "validate", arg |-> "Ok"]

\* C29: on a profile accepted by validate, whatever the random draws,
\* generate never panics and no step of it fails.
C29_NoFatalFailure ==
    \A c \in Calls : Validated(c) => pc[c] \notin {"panicked", "failed"}

====
